---- MODULE Spec2Model ----
(***************************************************************************)
(* Story extraction (services/user_story_extractor.py) and semantic        *)
(* clustering (services/clustering_service.py) of multisource-fastapi.     *)
(*                                                                         *)
(* Texts are sequences of word tokens (a sentence split at whitespace,    *)
(* punctuation marks being tokens of their own).  The outputs of the       *)
(* external NLP collaborators (spaCy parse, POS matcher, NER, word-vector  *)
(* similarity, sentence embeddings) are tables over a small corpus.        *)
(* Similarities are in hundredths, cosine distances in fiftieths.          *)
(***************************************************************************)
EXTENDS Integers, Sequences, FiniteSets, TLC

(* ------------------------------ bounds -------------------------------- *)

\* number of uuid4 identifiers handed out in a behaviour of Spec
MaxIds == 5

\* number of completed extract calls in a behaviour of Spec
MaxCalls == 2

\* stored stories in a behaviour of SpecCluster
MaxStories == 3

\* stored stories in a behaviour of SpecTop
MaxTopStories == 11

\* length of the strings given to _normalize_key in SpecKey
MaxKeyLen == 3

(* ------------------------------- texts -------------------------------- *)

\* Optional[str]: None is the empty tuple, a text t is <<t>>
NoneVal == <<>>

Some(t) == <<t>>

Punct == {".", "!", "?", ";", ",", ":"}

\* str.lower() on one token
LowerWord(w) ==
    CASE w = "Export" -> "export"
      [] w = "Reports" -> "reports"
      [] w = "So" -> "so"
      [] w = "That" -> "that"
      [] w = "I" -> "i"
      [] w = "We" -> "we"
      [] w = "To" -> "to"
      [] w = "Because" -> "because"
      [] w = "ACME" -> "acme"
      [] w = "Sync" -> "sync"
      [] w = "Admin" -> "admin"
      [] OTHER -> w

\* str.lower() on a text
Lower(t) == [i \in 1..Len(t) |-> LowerWord(t[i])]

\* \w+ : a token that is a word, not a punctuation mark
IsWord(w) == w \notin Punct

\* s.rstrip(".!?;,:") on a token sequence
RECURSIVE RStripPunct(_)
RStripPunct(t) ==
    IF t # <<>> /\ t[Len(t)] \in Punct
    THEN RStripPunct(SubSeq(t, 1, Len(t) - 1))
    ELSE t

\* positions i at which the marker (lower-cased tokens) occurs and is
\* followed by at least one more token
MarkerAt(s, marker) ==
    { i \in 1..Len(s) :
        /\ i + Len(marker) <= Len(s)
        /\ \A k \in 1..Len(marker) : LowerWord(s[i + k - 1]) \in marker[k] }

Min(S) == CHOOSE x \in S : \A y \in S : x <= y

Max(S) == CHOOSE x \in S : \A y \in S : x >= y

\* rx.search(s).group("why") for _SO_THAT_RE, _SO_I_CAN_RE, _BECAUSE_RE:
\* everything after the leftmost marker
RestAfter(s, marker) ==
    LET i == Min(MarkerAt(s, marker))
    IN  SubSeq(s, i + Len(marker), Len(s))

\* the longest run of word tokens starting at position i, at most n long
RECURSIVE WordRun(_, _, _)
WordRun(s, i, n) ==
    IF n = 0 \/ i > Len(s) \/ ~IsWord(s[i])
    THEN <<>>
    ELSE <<s[i]>> \o WordRun(s, i + 1, n - 1)

\* the {1,8} of _TO_VERB_RE
ToVerbMaxWords == 8

\* positions where _TO_VERB_RE matches: "to" followed by a word
ToVerbAt(s) ==
    { i \in 1..Len(s) :
        /\ LowerWord(s[i]) = "to"
        /\ i + 1 <= Len(s)
        /\ IsWord(s[i + 1]) }

_extract_why(s) ==
    IF MarkerAt(s, <<{"so"}, {"that"}>>) # {}
    THEN Some(RStripPunct(RestAfter(s, <<{"so"}, {"that"}>>)))
    ELSE IF MarkerAt(s, <<{"so"}, {"i", "we"}, {"can"}>>) # {}
    THEN Some(RStripPunct(RestAfter(s, <<{"so"}, {"i", "we"}, {"can"}>>)))
    ELSE IF MarkerAt(s, <<{"because"}>>) # {}
    THEN Some(RStripPunct(RestAfter(s, <<{"because"}>>)))
    ELSE IF ToVerbAt(s) # {}
    THEN Some(RStripPunct(WordRun(s, Min(ToVerbAt(s)) + 1, ToVerbMaxWords)))
    ELSE NoneVal

(* ------------------------------ corpus -------------------------------- *)

\* sentences, as spaCy segments them: tokens and named entities
SentExport == [words |-> <<"export", "reports", "because", "audits">>, ents |-> <<>>]

SentExportCaps == [words |-> <<"Export", "Reports", "because", "audits">>, ents |-> <<>>]

SentSync == [words |-> <<"sync", "data", "to", "phone", ".">>, ents |-> <<>>]

SentWeather == [words |-> <<"check", "weather">>, ents |-> <<>>]

SentHello == [words |-> <<"hello", "world">>, ents |-> <<>>]

SentNews ==
    [words |-> <<"2024", ":", "ACME", "will", "sync", "data">>,
     ents |-> <<[text |-> <<"2024">>, label |-> "DATE"],
                [text |-> <<"ACME">>, label |-> "ORG"]>>]

SentTweet == [words |-> <<"@bob", "export", "reports">>, ents |-> <<>>]

\* contents: isStr is isinstance(content, str); sents the sentences of
\* nlp(content); matches the (sentence, start, end) spans matcher(doc) yields
DocNone == [isStr |-> FALSE, sents |-> <<>>, matches |-> <<>>]

DocEmpty == [isStr |-> TRUE, sents |-> <<>>, matches |-> <<>>]

DocHello == [isStr |-> TRUE, sents |-> <<SentHello>>, matches |-> <<>>]

DocExport ==
    [isStr |-> TRUE, sents |-> <<SentExport>>,
     matches |-> <<[sent |-> 1, from |-> 1, to |-> 2]>>]

DocSync ==
    [isStr |-> TRUE, sents |-> <<SentSync>>,
     matches |-> <<[sent |-> 1, from |-> 1, to |-> 2]>>]

DocWeather ==
    [isStr |-> TRUE, sents |-> <<SentWeather>>,
     matches |-> <<[sent |-> 1, from |-> 1, to |-> 2]>>]

DocExportCaps ==
    [isStr |-> TRUE, sents |-> <<SentExportCaps>>,
     matches |-> <<[sent |-> 1, from |-> 1, to |-> 2]>>]

\* two sentences equal up to case, the second matched by two patterns
DocDup ==
    [isStr |-> TRUE, sents |-> <<SentExportCaps, SentExport, SentSync>>,
     matches |-> <<[sent |-> 1, from |-> 1, to |-> 2],
                   [sent |-> 2, from |-> 1, to |-> 2],
                   [sent |-> 2, from |-> 1, to |-> 2],
                   [sent |-> 3, from |-> 1, to |-> 2]>>]

DocNews ==
    [isStr |-> TRUE, sents |-> <<SentNews>>,
     matches |-> <<[sent |-> 1, from |-> 5, to |-> 6]>>]

DocTweet ==
    [isStr |-> TRUE, sents |-> <<SentTweet>>,
     matches |-> <<[sent |-> 1, from |-> 2, to |-> 3]>>]

\* one sentence matched by two patterns at different places
SentBoth == [words |-> <<"export", "reports", "and", "sync", "data">>, ents |-> <<>>]

DocBoth ==
    [isStr |-> TRUE, sents |-> <<SentBoth>>,
     matches |-> <<[sent |-> 1, from |-> 1, to |-> 2],
                   [sent |-> 1, from |-> 4, to |-> 5]>>]

\* a sound sentence followed by one on which the NLP pipeline fails
SentCrash == [words |-> <<"crash", "now">>, ents |-> <<>>]

DocFault ==
    [isStr |-> TRUE, sents |-> <<SentSync, SentCrash>>,
     matches |-> <<[sent |-> 1, from |-> 1, to |-> 2],
                   [sent |-> 2, from |-> 1, to |-> 2]>>]

Contents ==
    {DocNone, DocEmpty, DocHello, DocExport, DocWeather, DocDup, DocNews, DocTweet}

\* the reference vocabulary, dictionaries.default_dict
software_functionality_dict == <<"export", "synchronize">>

\* what_doc.similarity(kd), in hundredths (a cosine: -100..100)
Similarity(what, kw) ==
    CASE what = <<"export", "reports">> /\ kw = "export" -> 80
      [] what = <<"export", "reports">> /\ kw = "synchronize" -> 30
      [] what = <<"Export", "Reports">> /\ kw = "export" -> 60
      [] what = <<"Export", "Reports">> /\ kw = "synchronize" -> 20
      [] what = <<"sync", "data">> /\ kw = "export" -> 40
      [] what = <<"sync", "data">> /\ kw = "synchronize" -> 90
      [] what = <<"check", "weather">> /\ kw = "export" -> -10
      [] what = <<"check", "weather">> /\ kw = "synchronize" -> -20
      [] OTHER -> 0

\* nlp(c["what"]) or what_doc.similarity(kd) raises on this WHAT text
SimilarityRaises(what) == what = <<"crash", "now">>

(* ---------------------------- extraction ------------------------------ *)

UserWho == <<"user">>

RECURSIVE FirstEnt(_, _)
FirstEnt(ents, i) ==
    IF i > Len(ents) THEN UserWho
    ELSE IF ents[i].label \in {"PERSON", "ORG", "NORP"} THEN ents[i].text
    ELSE FirstEnt(ents, i + 1)

_who_from_news_sentence(sent) == FirstEnt(sent.ents, 1)

_who_from_review_sentence(sent) == UserWho

RECURSIVE Concat(_)
Concat(ss) == IF ss = <<>> THEN <<>> ELSE Head(ss).words \o Concat(Tail(ss))

\* tokens matching (?<!\w)@(\w+)
IsMention(w) == w \in {"@bob", "@ann"}

_who_from_tweet_sentence(sent, raw) ==
    IF \E i \in 1..Len(raw) : IsMention(raw[i])
    THEN <<raw[Min({i \in 1..Len(raw) : IsMention(raw[i])})]>>
    ELSE UserWho

_spacy_match_what(doc) ==
    [i \in 1..Len(doc.matches) |->
        [span |-> SubSeq(doc.sents[doc.matches[i].sent].words,
                         doc.matches[i].from, doc.matches[i].to),
         sent |-> doc.sents[doc.matches[i].sent]]]

Cand(who, m) ==
    [who |-> who, what |-> m.span, why |-> _extract_why(m.sent.words),
     full_sentence |-> m.sent.words]

_extract_from_review(content) ==
    LET ms == _spacy_match_what(content)
    IN  [i \in 1..Len(ms) |-> Cand(_who_from_review_sentence(ms[i].sent), ms[i])]

_extract_from_news(content) ==
    LET ms == _spacy_match_what(content)
    IN  [i \in 1..Len(ms) |-> Cand(_who_from_news_sentence(ms[i].sent), ms[i])]

_extract_from_tweet(content) ==
    LET ms == _spacy_match_what(content)
        raw == Concat(content.sents)
    IN  [i \in 1..Len(ms) |-> Cand(_who_from_tweet_sentence(ms[i].sent, raw), ms[i])]

\* the loop "for kd in keyword_docs" with max_sim starting at 0.0
RECURSIVE MaxSimFrom(_, _, _, _)
MaxSimFrom(what, keywords, i, max_sim) ==
    IF i > Len(keywords) THEN max_sim
    ELSE IF Similarity(what, keywords[i]) > max_sim
    THEN MaxSimFrom(what, keywords, i + 1, Similarity(what, keywords[i]))
    ELSE MaxSimFrom(what, keywords, i + 1, max_sim)

MaxSim(what, keywords) == MaxSimFrom(what, keywords, 1, 0)

Keeps(max_sim, threshold) == max_sim >= threshold

RECURSIVE _filter_by_software_context(_, _, _)
_filter_by_software_context(cands, keywords, threshold) ==
    IF cands = <<>> THEN <<>>
    ELSE LET c == Head(cands)
             max_sim == MaxSim(c.what, keywords)
             rest == _filter_by_software_context(Tail(cands), keywords, threshold)
         IN  IF Keeps(max_sim, threshold)
             THEN <<[who |-> c.who, what |-> c.what, why |-> c.why,
                     full_sentence |-> c.full_sentence,
                     similarity |-> max_sim]>> \o rest
             ELSE rest

\* c.get("why") or ""
WhyOrEmpty(why) == IF why = NoneVal THEN <<>> ELSE why[1]

\* mutant: the key compares the WHAT text case-sensitively
DedupeKeyCaseSensitive(c) ==
    <<Lower(c.who), c.what, Lower(WhyOrEmpty(c.why)), Lower(c.full_sentence)>>

DedupeKey(c) ==
    <<Lower(c.who), Lower(c.what), Lower(WhyOrEmpty(c.why)), Lower(c.full_sentence)>>

RECURSIVE Dedupe(_, _)
Dedupe(cands, seen) ==
    IF cands = <<>> THEN <<>>
    ELSE IF DedupeKey(Head(cands)) \notin seen
    THEN <<Head(cands)>> \o Dedupe(Tail(cands), seen \cup {DedupeKey(Head(cands))})
    ELSE Dedupe(Tail(cands), seen)

ValidSources == {"review", "news", "tweet"}

Candidates(source, content) ==
    IF source = "review" THEN _extract_from_review(content)
    ELSE IF source = "news" THEN _extract_from_news(content)
    ELSE _extract_from_tweet(content)

\* mutant: only the isinstance test, the empty string goes on
EmptyContentTypeOnly(content) == ~content.isStr

\* "if not content or not isinstance(content, str)"
EmptyContent(content) == ~content.isStr \/ content.sents = <<>>

Surviving(source, content, min_similarity, dedupe) ==
    LET filtered == _filter_by_software_context(
                        Candidates(source, content),
                        software_functionality_dict, min_similarity)
    IN  IF dedupe THEN Dedupe(filtered, {}) ELSE filtered

\* an exception raised while one candidate is filtered leaves
\* _filter_by_software_context and extract_user_stories: neither has a handler
FilterRaises(cands) == \E i \in 1..Len(cands) : SimilarityRaises(cands[i].what)

\* the outcome of extract_user_stories up to line 203: an early empty
\* return, the ValueError, an exception of the filter, or the surviving
\* candidates
Outcome(source, content, min_similarity, dedupe) ==
    IF EmptyContent(content) THEN [status |-> "ok", cands |-> <<>>]
    ELSE IF source \notin ValidSources THEN [status |-> "ValueError", cands |-> <<>>]
    ELSE IF FilterRaises(Candidates(source, content))
    THEN [status |-> "Exception", cands |-> <<>>]
    ELSE [status |-> "ok", cands |-> Surviving(source, content, min_similarity, dedupe)]

(* ------------------------------- state -------------------------------- *)

VARIABLES
    store,      \* user_stories_collection, in insertion order
    issued,     \* how many uuid4 identifiers have been drawn
    pc,         \* per worker thread: "idle", or "insert" before line 234
    pending,    \* per worker thread: the call in flight (arguments and docs)
    done,       \* number of completed extract calls
    last,       \* the most recently completed extract call and its result
    lastCl,     \* the most recent clustering call and its result
    prevCl,     \* the clustering call before it, on the same stored stories
    ai_store,   \* ai_stories_collection, in insertion order
    diag,       \* the most recent diagram synthesis and its result
    keyed,      \* the most recent application of _normalize_key
    use_cases,  \* use_cases_collection and ai_use_cases_collection: snapshots
    who_aspect, \* the most recent application of identify_who_aspect
    relevance,  \* the most recent call of the relevance filter on a vocabulary
    news,       \* news_collection, in insertion order
    fetch,      \* per request of get-news: its position and what it returned
    maint       \* the most recent maintenance or read request and its response

vars ==
    <<store, issued, pc, pending, done, last, lastCl, prevCl, ai_store, diag, keyed,
      use_cases, who_aspect, relevance, news, fetch, maint>>

\* the state of the extraction, clustering and synthesis services
coreVars ==
    <<store, issued, pc, pending, done, last, lastCl, prevCl, ai_store, diag, keyed,
      use_cases>>

\* the state of the other services
extraVars == <<who_aspect, relevance, news, fetch, maint>>

Workers == {"w1", "w2"}

Sources == ValidSources \cup {"blog"}

Projects == {"p1", "p2"}

SourceIds == {"s1"}

\* min_similarity values, in hundredths (0.0 and the default 0.70)
MinSimilarities == {0, 70}

NoCall ==
    [source |-> "", source_id |-> "", content |-> DocNone, project_id |-> "",
     min_similarity |-> 0, dedupe |-> FALSE, status |-> "none", models |-> <<>>]

NoCluster ==
    [project_id |-> "", distance_threshold |-> 0, status |-> "none",
     clusters |-> <<>>, formed |-> <<>>]

\* no diagram synthesized yet
NoDiagram ==
    [op |-> "none", project_id |-> "", status |-> "none", records |-> <<>>,
     usecase_map |-> <<>>, actor_set |-> {}, edges |-> {},
     diagrams |-> <<>>, stats |-> [actors |-> 0, usecases |-> 0, edges |-> 0]]

\* _normalize_key not applied yet
NoKey ==
    [applied |-> FALSE, s |-> <<>>, key |-> <<>>, rekey |-> <<>>,
     cluster_key |-> <<>>, cluster_rekey |-> <<>>]

\* identify_who_aspect not applied yet
NoAspect == [applied |-> FALSE, sent |-> <<>>, who |-> ""]

\* the relevance filter not called on a vocabulary yet
NoFilter ==
    [applied |-> FALSE, cands |-> <<>>, keywords |-> <<>>, threshold |-> 0,
     status |-> "none", kept |-> <<>>]

\* no get-news request in flight
NoFetch ==
    [pc |-> "idle", project_id |-> "", query |-> "", status |-> "none",
     returned |-> <<>>]

\* no maintenance or read request yet
NoMaint ==
    [n |-> 0, op |-> "none", project_id |-> "", status |-> "none", count |-> 0,
     diagrams |-> <<>>, stats |-> [actors |-> 0, usecases |-> 0, edges |-> 0]]

Init ==
    /\ store = <<>>
    /\ issued = 0
    /\ pc = [w \in Workers |-> "idle"]
    /\ pending = [w \in Workers |-> NoCall]
    /\ done = 0
    /\ last = NoCall
    /\ lastCl = NoCluster
    /\ prevCl = NoCluster
    /\ ai_store = <<>>
    /\ diag = NoDiagram
    /\ keyed = NoKey
    /\ use_cases = <<>>
    /\ who_aspect = NoAspect
    /\ relevance = NoFilter
    /\ news = <<>>
    /\ fetch = [w \in Workers |-> NoFetch]
    /\ maint = NoMaint

\* str(uuid.uuid4()): the k-th identifier drawn
uuid4(k) == k

\* mutant: the identifier is the position of the candidate in its call
BuildDocsPositionIds(cands, source, source_id, project_id, base) ==
    [i \in 1..Len(cands) |->
        [id |-> i,
         who |-> cands[i].who,
         what |-> cands[i].what,
         why |-> cands[i].why,
         full_sentence |-> cands[i].full_sentence,
         similarity_score |-> cands[i].similarity,
         source |-> source,
         source_id |-> source_id,
         project_id |-> project_id]]

\* the docs of lines 204-232: candidate i of the call gets a new identifier
BuildDocs(cands, source, source_id, project_id, base) ==
    [i \in 1..Len(cands) |->
        [id |-> uuid4(base + i),
         who |-> cands[i].who,
         what |-> cands[i].what,
         why |-> cands[i].why,
         full_sentence |-> cands[i].full_sentence,
         similarity_score |-> cands[i].similarity,
         source |-> source,
         source_id |-> source_id,
         project_id |-> project_id]]

Call(source, source_id, content, project_id, min_similarity, dedupe, status, models) ==
    [source |-> source, source_id |-> source_id, content |-> content,
     project_id |-> project_id, min_similarity |-> min_similarity,
     dedupe |-> dedupe, status |-> status, models |-> models]

\* mutant: an upsert keyed by (source, source_id, what) instead of an insert
insert_many_upsert(coll, docs) ==
    coll \o SelectSeq(docs, LAMBDA d :
                ~\E i \in 1..Len(coll) :
                    /\ coll[i].source = d.source
                    /\ coll[i].source_id = d.source_id
                    /\ coll[i].what = d.what)

\* user_stories_collection.insert_many(docs)
insert_many(coll, docs) == coll \o docs

\* extract_user_stories, lines 168-203: the calls that end before any
\* document is built (empty content, ValueError, nothing survives)
ExtractReturn(w, source, source_id, content, project_id, min_similarity, dedupe) ==
    LET out == Outcome(source, content, min_similarity, dedupe)
    IN  /\ pc[w] = "idle"
        /\ out.cands = <<>>
        /\ last' = Call(source, source_id, content, project_id, min_similarity,
                        dedupe, out.status, <<>>)
        /\ done' = done + 1
        /\ UNCHANGED <<store, issued, pc, pending, lastCl, prevCl, ai_store, diag, keyed,
                     use_cases, extraVars>>

\* extract_user_stories, lines 168-232: candidates survive, the docs are built
ExtractBuild(w, source, source_id, content, project_id, min_similarity, dedupe) ==
    LET out == Outcome(source, content, min_similarity, dedupe)
    IN  /\ pc[w] = "idle"
        /\ out.cands # <<>>
        /\ pending' = [pending EXCEPT ![w] =
               Call(source, source_id, content, project_id, min_similarity, dedupe,
                    "ok", BuildDocs(out.cands, source, source_id, project_id, issued))]
        /\ issued' = issued + Len(out.cands)
        /\ pc' = [pc EXCEPT ![w] = "insert"]
        /\ UNCHANGED <<store, done, last, lastCl, prevCl, ai_store, diag, keyed,
                     use_cases, extraVars>>

\* extract_user_stories, lines 233-235: insert_many and return
ExtractInsert(w) ==
    /\ pc[w] = "insert"
    /\ store' = insert_many(store, pending[w].models)
    /\ last' = pending[w]
    /\ done' = done + 1
    /\ pc' = [pc EXCEPT ![w] = "idle"]
    /\ pending' = [pending EXCEPT ![w] = NoCall]
    /\ lastCl' = NoCluster
    /\ prevCl' = NoCluster
    /\ diag' = NoDiagram
    /\ UNCHANGED <<issued, ai_store, keyed, use_cases, extraVars>>

\* calls begun: completed or in flight
Begun == done + Cardinality({w \in Workers : pc[w] = "insert"})

\* one worker thread, every kind of source and content
SpecWorkers == {"w1"}

SpecContents ==
    {DocNone, DocEmpty, DocHello, DocWeather, DocDup, DocNews, DocTweet, DocBoth,
     DocFault}

Next ==
    \/ \E w \in SpecWorkers, source \in Sources, source_id \in SourceIds,
          content \in SpecContents, project_id \in {"p1"},
          min_similarity \in MinSimilarities, dedupe \in BOOLEAN :
            /\ Begun < MaxCalls
            /\ ExtractReturn(w, source, source_id, content, project_id,
                             min_similarity, dedupe)
    \/ \E w \in SpecWorkers, source \in Sources, source_id \in SourceIds,
          content \in SpecContents, project_id \in {"p1"},
          min_similarity \in MinSimilarities, dedupe \in BOOLEAN :
            /\ Begun < MaxCalls
            /\ ExtractBuild(w, source, source_id, content, project_id,
                            min_similarity, dedupe)
            /\ issued' <= MaxIds
    \/ \E w \in SpecWorkers : ExtractInsert(w)

Spec == Init /\ [][Next]_vars

\* two worker threads extracting concurrently from the same few reviews
StoreContents == {DocHello, DocExport, DocDup}

NextStore ==
    \/ \E w \in Workers, source_id \in SourceIds, content \in StoreContents,
          project_id \in Projects, dedupe \in BOOLEAN :
            /\ Begun < MaxCalls
            /\ ExtractReturn(w, "review", source_id, content, project_id, 70, dedupe)
    \/ \E w \in Workers, source_id \in SourceIds, content \in StoreContents,
          project_id \in Projects, dedupe \in BOOLEAN :
            /\ Begun < MaxCalls
            /\ ExtractBuild(w, "review", source_id, content, project_id, 70, dedupe)
            /\ issued' <= MaxIds
    \/ \E w \in Workers : ExtractInsert(w)

SpecStore == Init /\ [][NextStore]_vars

(* ----------------------------- clustering ----------------------------- *)

\* embedding_model.encode(what): the sentence embeddings of the corpus
Embed(what) ==
    CASE what = <<"export", "reports">> -> <<5, 0>>
      [] what = <<"Export", "Reports">> -> <<4, 3>>
      [] what = <<"sync", "data">> -> <<0, 5>>
      [] what = <<"check", "weather">> -> <<6, 8>>
      [] OTHER -> <<3, 4>>

Dot(a, b) == a[1] * b[1] + a[2] * b[2]

Abs(x) == IF x < 0 THEN -x ELSE x

\* the Euclidean norm (the corpus vectors have integer norms)
Norm(a) == CHOOSE n \in 0..(Abs(a[1]) + Abs(a[2])) : n * n = Dot(a, a)

\* metric="cosine": 1 - cos(a, b), in fiftieths
CosDist(a, b) == 50 - (50 * Dot(a, b)) \div (Norm(a) * Norm(b))

\* _get_stories_by_project: find({"project_id": project_id})
_get_stories_by_project(coll, project_id) ==
    SelectSeq(coll, LAMBDA story : story.project_id = project_id)

_vectorize_stories(stories) == [i \in 1..Len(stories) |-> Embed(stories[i].what)]

\* the matrix of pairwise cosine distances of the embeddings
DistMatrix(emb) ==
    [p \in (1..Len(emb)) \X (1..Len(emb)) |-> CosDist(emb[p[1]], emb[p[2]])]

\* the sum of the pairwise distances between the members of two groups
RECURSIVE SumPairs(_, _)
SumPairs(P, D) ==
    IF P = {} THEN 0
    ELSE LET p == CHOOSE q \in P : TRUE
         IN  D[p] + SumPairs(P \ {p}, D)

\* the pairs of distinct groups, the group with the smaller first member first
GroupPairs(G) == { p \in G \X G : Min(p[1]) < Min(p[2]) }

\* per pair of groups, the sum of the distances between their members
LinkSums(G, D) == [p \in GroupPairs(G) |-> SumPairs(p[1] \X p[2], D)]

\* linkage="average": group pair p is strictly closer than group pair q
Closer(p, q, L) ==
    L[p] * Cardinality(q[1]) * Cardinality(q[2])
        < L[q] * Cardinality(p[1]) * Cardinality(p[2])

\* the closest pair of groups; among equally close pairs the one whose
\* groups come first
ClosestPair(G, L) ==
    CHOOSE p \in DOMAIN L :
        \A q \in DOMAIN L :
            \/ Closer(p, q, L)
            \/ /\ ~Closer(q, p, L)
               /\ \/ Min(p[1]) < Min(q[1])
                  \/ Min(p[1]) = Min(q[1]) /\ Min(p[2]) <= Min(q[2])

\* mutant: the comparison with the threshold is the wrong way round
MergesAbove(p, L, distance_threshold) ==
    L[p] > distance_threshold * Cardinality(p[1]) * Cardinality(p[2])

\* a merge is kept by the cut when its linkage distance is below the
\* threshold (n_clusters_ = count(distances_ >= distance_threshold) + 1)
Merges(p, L, distance_threshold) ==
    L[p] < distance_threshold * Cardinality(p[1]) * Cardinality(p[2])

\* AgglomerativeClustering(n_clusters=None, distance_threshold, "cosine",
\* "average").fit(embeddings): merge the closest groups bottom-up
RECURSIVE Agglomerate(_, _, _)
Agglomerate(G, D, distance_threshold) ==
    IF Cardinality(G) < 2 THEN G
    ELSE LET L == LinkSums(G, D)
             p == ClosestPair(G, L)
         IN  IF Merges(p, L, distance_threshold)
             THEN Agglomerate((G \ {p[1], p[2]}) \cup {p[1] \cup p[2]},
                              D, distance_threshold)
             ELSE G

\* fit() on n samples: the groups of indices that share a label
FitGroups(emb, distance_threshold) ==
    Agglomerate({ {i} : i \in 1..Len(emb) }, DistMatrix(emb), distance_threshold)

\* the indices of a group in increasing order
RECURSIVE SortedIdx(_)
SortedIdx(A) ==
    IF A = {} THEN <<>> ELSE <<Min(A)>> \o SortedIdx(A \ {Min(A)})

\* clustered_stories: the groups in order of the first story of each
RECURSIVE GroupsInOrder(_)
GroupsInOrder(G) ==
    IF G = {} THEN <<>>
    ELSE LET A == CHOOSE X \in G : \A Y \in G : Min(X) <= Min(Y)
         IN  <<SortedIdx(A)>> \o GroupsInOrder(G \ {A})

\* stories.index(item)
IndexOf(stories, item) == Min({ i \in 1..Len(stories) : stories[i] = item })

\* np.mean(cluster_embeddings, axis=0), times the group size (the cosine
\* below does not change under a positive factor)
RECURSIVE VecSum(_)
VecSum(vs) ==
    IF vs = <<>> THEN <<0, 0>>
    ELSE <<Head(vs)[1] + VecSum(Tail(vs))[1], Head(vs)[2] + VecSum(Tail(vs))[2]>>

\* cosine_similarity(a, centroid) > cosine_similarity(b, centroid)
SimGreater(a, b, centroid) ==
    Dot(a, centroid) * Norm(b) > Dot(b, centroid) * Norm(a)

\* mutant: the last position of the largest similarity
ArgMaxLast(cluster_embeddings, centroid) ==
    Max({ i \in 1..Len(cluster_embeddings) :
            \A j \in 1..Len(cluster_embeddings) :
                ~SimGreater(cluster_embeddings[j], cluster_embeddings[i], centroid) })

\* np.argmax(similarities): the first position of the largest similarity
ArgMax(cluster_embeddings, centroid) ==
    Min({ i \in 1..Len(cluster_embeddings) :
            \A j \in 1..Len(cluster_embeddings) :
                ~SimGreater(cluster_embeddings[j], cluster_embeddings[i], centroid) })

\* story.pop("full_sentence", None)
PopFullSentence(story) ==
    [f \in (DOMAIN story) \ {"full_sentence"} |-> story[f]]

\* lines 106-134: one entry of output_clusters
MakeCluster(stories, embeddings, idx, label) ==
    LET cluster_items == [k \in 1..Len(idx) |-> stories[idx[k]]]
        item_indices == [k \in 1..Len(idx) |-> IndexOf(stories, cluster_items[k])]
        cluster_embeddings == [k \in 1..Len(idx) |-> embeddings[item_indices[k]]]
        centroid == VecSum(cluster_embeddings)
        representative_idx == ArgMax(cluster_embeddings, centroid)
    IN  [cluster_id |-> label,
         representative_story |-> PopFullSentence(cluster_items[representative_idx]),
         stories |-> [k \in 1..Len(idx) |-> PopFullSentence(cluster_items[k])],
         size |-> Len(cluster_items),
         sources |-> { cluster_items[k].source : k \in 1..Len(idx) }]

\* list.sort(key=size, reverse=True): stable, largest first
RECURSIVE InsertBySize(_, _)
InsertBySize(sorted, c) ==
    IF sorted = <<>> THEN <<c>>
    ELSE IF Head(sorted).size >= c.size
    THEN <<Head(sorted)>> \o InsertBySize(Tail(sorted), c)
    ELSE <<c>> \o sorted

\* mutant: reverse=True forgotten, the clusters are left in label order
SortBySizeUnsorted(cs) == cs

RECURSIVE SortBySize(_)
SortBySize(cs) ==
    IF cs = <<>> THEN <<>>
    ELSE InsertBySize(SortBySize(SubSeq(cs, 1, Len(cs) - 1)), cs[Len(cs)])

\* the 10 of "output_clusters[:10]"
TopClusters == 10

Truncate(cs) == SubSeq(cs, 1, IF Len(cs) < TopClusters THEN Len(cs) ELSE TopClusters)

\* fit() needs at least two samples
MinSamples == 2

\* cluster_and_summarize_stories(project_id, distance_threshold); formed is
\* output_clusters after the sort, before the slice.  labels_ numbers the
\* groups from 0; the groups are numbered here by their first story.
cluster_and_summarize_stories(coll, project_id, distance_threshold) ==
    LET stories == _get_stories_by_project(coll, project_id)
        embeddings == _vectorize_stories(stories)
        groups == GroupsInOrder(FitGroups(embeddings, distance_threshold))
        output_clusters ==
            SortBySize([g \in 1..Len(groups) |->
                           MakeCluster(stories, embeddings, groups[g], g - 1)])
    IN  IF stories = <<>>
        THEN [project_id |-> project_id, distance_threshold |-> distance_threshold,
              status |-> "ok", clusters |-> <<>>, formed |-> <<>>]
        ELSE IF Len(stories) < MinSamples
        THEN [project_id |-> project_id, distance_threshold |-> distance_threshold,
              status |-> "ValueError", clusters |-> <<>>, formed |-> <<>>]
        ELSE [project_id |-> project_id, distance_threshold |-> distance_threshold,
              status |-> "ok", clusters |-> Truncate(output_clusters),
              formed |-> output_clusters]

\* mutant: the stories are written back as clustering left them, the
\* sentence popped
ClusterWritesBack(project_id, distance_threshold) ==
    /\ \A w \in Workers : pc[w] = "idle"
    /\ lastCl' = cluster_and_summarize_stories(store, project_id, distance_threshold)
    /\ prevCl' = IF lastCl.status # "none" /\ lastCl.project_id = project_id
                 THEN lastCl ELSE NoCluster
    /\ store' = [i \in 1..Len(store) |->
                    IF store[i].project_id = project_id
                    THEN [store[i] EXCEPT !.full_sentence = <<>>] ELSE store[i]]
    /\ UNCHANGED <<issued, pc, pending, done, last, ai_store, diag, keyed,
                   use_cases, extraVars>>

\* GET /user_stories/{project_id}?distance=t
Cluster(project_id, distance_threshold) ==
    /\ \A w \in Workers : pc[w] = "idle"
    /\ lastCl' = cluster_and_summarize_stories(store, project_id, distance_threshold)
    /\ prevCl' = IF lastCl.status # "none" /\ lastCl.project_id = project_id
                 THEN lastCl ELSE NoCluster
    /\ UNCHANGED <<store, issued, pc, pending, done, last, ai_store, diag, keyed,
                   use_cases, extraVars>>

\* distance thresholds, in fiftieths: 0, 0.5 (the default) and 1
Thresholds == {0, 25, 50}

\* a few stories of two projects, clustered at every threshold
ClusterContents == {DocExport, DocSync, DocWeather}

NextCluster ==
    \/ \E content \in ClusterContents, project_id \in Projects :
            /\ Len(store) < MaxStories
            /\ ExtractBuild("w1", "review", "s1", content, project_id, 0, TRUE)
    \/ ExtractInsert("w1")
    \/ \E project_id \in Projects, distance_threshold \in Thresholds :
            Cluster(project_id, distance_threshold)

SpecCluster == Init /\ [][NextCluster]_vars

\* many stories of one project, enough for more than ten clusters: a
\* review that yields three stories and one that yields a single story
TopThresholds == {0, 25}

NextTop ==
    \/ /\ ExtractBuild("w1", "review", "s1", DocDup, "p1", 70, FALSE)
       /\ Len(store) + 3 <= MaxTopStories
    \/ /\ ExtractBuild("w1", "review", "s1", DocSync, "p1", 70, FALSE)
       /\ Len(store) + 1 <= MaxTopStories
    \/ ExtractInsert("w1")
    \/ \E distance_threshold \in TopThresholds : Cluster("p1", distance_threshold)

SpecTop == Init /\ [][NextTop]_vars

(* ------------------------- use-case diagrams -------------------------- *)

\* The strings of the diagram services are sequences of atoms: an atom is a
\* word, one whitespace character, or one quote or bracket character.

\* what str.strip() removes and \s matches
Whitespace == {" ", "TAB"}

\* the characters of .strip("\"'" "“”‘’()[]{}") in usecase_diagram_service
QuoteChars ==
    {"\"", "'", "LDQUO", "RDQUO", "LSQUO", "RSQUO", "(", ")", "[", "]", "{", "}"}

\* the characters of .strip("\"'()[]{}" "''") in clustering_service
ClusterQuoteChars == {"\"", "'", "(", ")", "[", "]", "{", "}"}

RECURSIVE LStrip(_, _)
LStrip(s, chars) ==
    IF s # <<>> /\ Head(s) \in chars THEN LStrip(Tail(s), chars) ELSE s

RECURSIVE RStrip(_, _)
RStrip(s, chars) ==
    IF s # <<>> /\ s[Len(s)] \in chars
    THEN RStrip(SubSeq(s, 1, Len(s) - 1), chars)
    ELSE s

\* str.strip(chars)
Strip(s, chars) == RStrip(LStrip(s, chars), chars)

\* _ws_re.sub(" ", s): every run of whitespace becomes one blank
RECURSIVE CollapseSpaces(_)
CollapseSpaces(s) ==
    IF s = <<>> THEN <<>>
    ELSE IF Head(s) \in Whitespace
    THEN <<" ">> \o CollapseSpaces(LStrip(s, Whitespace))
    ELSE <<Head(s)>> \o CollapseSpaces(Tail(s))

\* the body shared by the two _normalize_key functions
NormalizeKey(s, chars) ==
    IF s = <<>> THEN <<>>
    ELSE Lower(CollapseSpaces(Strip(Strip(s, Whitespace), chars)))

\* usecase_diagram_service._normalize_key
_normalize_key(s) == NormalizeKey(s, QuoteChars)

\* clustering_service._normalize_key
cluster_normalize_key(s) == NormalizeKey(s, ClusterQuoteChars)

\* the atoms of the strings normalized in SpecKey
KeyAtoms == {"Sync", "sync", " ", "TAB", "(", "LDQUO"}

KeyStrings == UNION { [1..n -> KeyAtoms] : n \in 0..MaxKeyLen }

\* _normalize_key applied to s and again to its result, in both services
Normalize(s) ==
    /\ keyed' = [applied |-> TRUE, s |-> s,
                 key |-> _normalize_key(s),
                 rekey |-> _normalize_key(_normalize_key(s)),
                 cluster_key |-> cluster_normalize_key(s),
                 cluster_rekey |-> cluster_normalize_key(cluster_normalize_key(s))]
    /\ UNCHANGED <<store, issued, pc, pending, done, last, lastCl, prevCl,
                   ai_store, diag, use_cases, extraVars>>

NextKey == \E s \in KeyStrings : Normalize(s)

SpecKey == Init /\ [][NextKey]_vars

\* a stored text (a sequence of tokens) as the string the services read:
\* the tokens separated by single blanks
RECURSIVE Text(_)
Text(t) ==
    IF Len(t) <= 1 THEN t ELSE <<Head(t), " ">> \o Text(Tail(t))

\* the who, what and why of a document of user_stories_collection
StoryView(doc) ==
    [who |-> Text(doc.who), what |-> Text(doc.what),
     why |-> IF doc.why = NoneVal THEN NoneVal ELSE Some(Text(doc.why[1]))]

\* the who, what and why of a document of ai_stories_collection
AiStoryView(doc) == [who |-> doc.who, what |-> doc.what, why |-> doc.why]

\* s.get(field) or default, on a string field (None and "" are both falsy)
OrElse(x, default) == IF x = <<>> THEN default ELSE x

\* _ws_re.sub(" ", who).strip() or "user"
ActorLabel(who) == OrElse(Strip(CollapseSpaces(who), Whitespace), <<"user">>)

\* s.get("why") or None
WhyOrNone(why) == IF why = NoneVal \/ why[1] = <<>> THEN NoneVal ELSE why

\* usecase_map is a dict: here the sequence of its entries in insertion order
HasKey(usecase_map, key) ==
    \E i \in 1..Len(usecase_map) : usecase_map[i].key = key

Entry(usecase_map, key) ==
    usecase_map[CHOOSE i \in 1..Len(usecase_map) : usecase_map[i].key = key]

InSeq(x, xs) == \E i \in 1..Len(xs) : xs[i] = x

\* if why: if why not in usecase_map[key]["whys"]: ....append(why)
AddWhy(usecase_map, key, why) ==
    [i \in 1..Len(usecase_map) |->
        IF usecase_map[i].key = key /\ why # NoneVal
              /\ ~InSeq(why[1], usecase_map[i].whys)
        THEN [usecase_map[i] EXCEPT !.whys = Append(@, why[1])]
        ELSE usecase_map[i]]

EmptyGraph == [usecase_map |-> <<>>, actor_set |-> {}, edges |-> {}]

\* mutant: the edges are counted as the use cases are
StatsEdgesAsUsecases(g) ==
    [actors |-> Cardinality(g.actor_set), usecases |-> Len(g.usecase_map),
     edges |-> Len(g.usecase_map)]

\* the three counts of the result
Stats(g) ==
    [actors |-> Cardinality(g.actor_set), usecases |-> Len(g.usecase_map),
     edges |-> Cardinality(g.edges)]

\* mutant: a story whose key is known replaces the label of its use case
CollectStoryLastLabel(g, s, chars) ==
    LET who == Strip(OrElse(s.who, <<"user">>), Whitespace)
        what == Strip(s.what, Whitespace)
        why == WhyOrNone(s.why)
        actor_label == ActorLabel(who)
        key == NormalizeKey(what, chars)
        added == IF HasKey(g.usecase_map, key)
                 THEN [i \in 1..Len(g.usecase_map) |->
                          IF g.usecase_map[i].key = key
                          THEN [g.usecase_map[i] EXCEPT !.label = what]
                          ELSE g.usecase_map[i]]
                 ELSE Append(g.usecase_map,
                             [key |-> key, label |-> what, whys |-> <<>>])
    IN  IF what = <<>> THEN g
        ELSE [usecase_map |-> AddWhy(added, key, why),
              actor_set |-> g.actor_set \cup {actor_label},
              edges |-> g.edges \cup {<<actor_label, key>>}]

\* the body of the loop "for s in cursor" of _collect_from_stories and
\* _collect_from_ai_stories, and of "for story in cluster['stories']"
CollectStory(g, s, chars) ==
    LET who == Strip(OrElse(s.who, <<"user">>), Whitespace)
        what == Strip(s.what, Whitespace)
        why == WhyOrNone(s.why)
        actor_label == ActorLabel(who)
        key == NormalizeKey(what, chars)
        added == IF HasKey(g.usecase_map, key)
                 THEN g.usecase_map
                 ELSE Append(g.usecase_map,
                             [key |-> key, label |-> what, whys |-> <<>>])
    IN  IF what = <<>> THEN g
        ELSE [usecase_map |-> AddWhy(added, key, why),
              actor_set |-> g.actor_set \cup {actor_label},
              edges |-> g.edges \cup {<<actor_label, key>>}]

\* the loop over the first n stories, starting from the graph g
RECURSIVE CollectAll(_, _, _, _)
CollectAll(g, stories, n, chars) ==
    IF n = 0 THEN g
    ELSE CollectStory(CollectAll(g, stories, n - 1, chars), stories[n], chars)

\* the stories of a project in a collection, as the loops read them
Views(coll, project_id, ai) ==
    LET found == SelectSeq(coll, LAMBDA doc : doc.project_id = project_id)
    IN  [i \in 1..Len(found) |->
            IF ai THEN AiStoryView(found[i]) ELSE StoryView(found[i])]

_collect_from_stories(coll, project_id) ==
    LET views == Views(coll, project_id, FALSE)
    IN  CollectAll(EmptyGraph, views, Len(views), QuoteChars)

_collect_from_ai_stories(coll, project_id) ==
    LET views == Views(coll, project_id, TRUE)
    IN  CollectAll(EmptyGraph, views, Len(views), QuoteChars)

MAX_USECASES_PER_DIAGRAM == 6

_alias(prefix, idx) == <<prefix, idx>>

\* mutant: the last chunk is cut to the chunk before it
ChunkDropLast(seq, size) ==
    [c \in 1..(Len(seq) \div size) |->
        SubSeq(seq, (c - 1) * size + 1, c * size)]

\* [seq[i : i + size] for i in range(0, len(seq), size)]
_chunk(seq, size) ==
    [c \in 1..((Len(seq) + size - 1) \div size) |->
        SubSeq(seq, (c - 1) * size + 1, Min({c * size, Len(seq)}))]

\* the elements of a set in an order of enumeration; the iteration order of
\* a Python set is not fixed, so two opposite orders are considered
RECURSIVE Enumerate(_, _)
Enumerate(S, backwards) ==
    IF S = {} THEN <<>>
    ELSE LET x == CHOOSE y \in S : TRUE
         IN  IF backwards
             THEN Enumerate(S \ {x}, backwards) \o <<x>>
             ELSE <<x>> \o Enumerate(S \ {x}, backwards)

\* the first occurrences of the actors of a list of edges, in order
RECURSIVE FirstActors(_)
FirstActors(edge_list) ==
    IF edge_list = <<>> THEN <<>>
    ELSE LET before == FirstActors(SubSeq(edge_list, 1, Len(edge_list) - 1))
             a == edge_list[Len(edge_list)][1]
         IN  IF InSeq(a, before) THEN before ELSE Append(before, a)

PositionIn(x, xs) == CHOOSE i \in 1..Len(xs) : xs[i] = x

\* mutant: only the first edge of a chunk is kept
ChunkEdgesFirstOnly(edge_list, ckeys) ==
    LET all == SelectSeq(edge_list, LAMBDA e : InSeq(e[2], ckeys))
    IN  SubSeq(all, 1, Min({1, Len(all)}))

\* "if uc_key in ckeys: chunk_edges.append(...)"
ChunkEdges(edge_list, ckeys) ==
    SelectSeq(edge_list, LAMBDA e : InSeq(e[2], ckeys))

\* one pass of the loop "for ci, ckeys in enumerate(chunks, start=1)": the
\* declarations and arrows of one diagram
RenderChunk(ci, parts, ckeys, usecase_map, edge_list) ==
    LET chunk_edges == ChunkEdges(edge_list, ckeys)
        actors_in_chunk == FirstActors(chunk_edges)
    IN  [part |-> ci, parts |-> parts,
         actors |-> [i \in 1..Len(actors_in_chunk) |->
                        [label |-> actors_in_chunk[i], alias |-> _alias("A", i)]],
         usecases |-> [i \in 1..Len(ckeys) |->
                        [key |-> ckeys[i],
                         label |-> Entry(usecase_map, ckeys[i]).label,
                         alias |-> _alias("U", i)]],
         arrows |-> [i \in 1..Len(chunk_edges) |->
                        [from |-> _alias("A", PositionIn(chunk_edges[i][1],
                                                         actors_in_chunk)),
                         to |-> _alias("U", PositionIn(chunk_edges[i][2], ckeys))]]]

_render_puml_chunks(usecase_map, actor_set, edges, backwards) ==
    LET usecase_keys == [i \in 1..Len(usecase_map) |-> usecase_map[i].key]
        chunks == _chunk(usecase_keys, MAX_USECASES_PER_DIAGRAM)
        edge_list == Enumerate(edges, backwards)
    IN  [ci \in 1..Len(chunks) |->
            RenderChunk(ci, Len(chunks), chunks[ci], usecase_map, edge_list)]

\* the result of a synthesis; records are the stories it read
Diagram(op, project_id, records, g, diagrams) ==
    [op |-> op, project_id |-> project_id, status |-> "ok", records |-> records,
     usecase_map |-> g.usecase_map, actor_set |-> g.actor_set, edges |-> g.edges,
     diagrams |-> diagrams,
     stats |-> IF g.usecase_map = <<>>
               THEN [actors |-> 0, usecases |-> 0, edges |-> 0] ELSE Stats(g)]

\* lines 172-212 of create_use_case_diagrams_by_project and 263-304 of
\* create_use_case_diagrams_from_ai_stories
SynthesizeProject(op, project_id, records, g, backwards) ==
    IF g.usecase_map = <<>>
    THEN Diagram(op, project_id, records, g, <<>>)
    ELSE Diagram(op, project_id, records, g,
                 _render_puml_chunks(g.usecase_map, g.actor_set, g.edges, backwards))

\* datetime.utcnow() when a snapshot is built: a clock that has advanced
\* since the snapshot before
utcnow(coll) == Len(coll) + 1

\* the snapshot inserted into use_cases_collection / ai_use_cases_collection
Snapshot(d, generated_at) ==
    [project_id |-> d.project_id, op |-> d.op, generated_at |-> generated_at,
     diagrams |-> d.diagrams, stats |-> d.stats]

\* POST /usecases/diagram
create_use_case_diagrams_by_project(project_id, backwards) ==
    LET d == SynthesizeProject("project", project_id,
                               Views(store, project_id, FALSE),
                               _collect_from_stories(store, project_id), backwards)
    IN  /\ diag' = d
        /\ use_cases' = IF d.usecase_map = <<>> THEN use_cases
                        ELSE Append(use_cases, Snapshot(d, utcnow(use_cases)))
        /\ UNCHANGED <<store, issued, pc, pending, done, last, lastCl, prevCl,
                       ai_store, keyed, extraVars>>

\* POST /usecases/diagram/ai
create_use_case_diagrams_from_ai_stories(project_id, backwards) ==
    LET d == SynthesizeProject("ai", project_id,
                               Views(ai_store, project_id, TRUE),
                               _collect_from_ai_stories(ai_store, project_id),
                               backwards)
    IN  /\ diag' = d
        /\ use_cases' = IF d.usecase_map = <<>> THEN use_cases
                        ELSE Append(use_cases, Snapshot(d, utcnow(use_cases)))
        /\ UNCHANGED <<store, issued, pc, pending, done, last, lastCl, prevCl,
                       ai_store, keyed, extraVars>>

\* POST /ai/generate-user-stories with persist=True: the stories the
\* language model returned are inserted into ai_stories_collection
generate_ai_user_stories(project_id, stories) ==
    /\ ai_store' = ai_store \o
          [i \in 1..Len(stories) |->
              [id |-> uuid4(issued + i), who |-> stories[i].who,
               what |-> stories[i].what, why |-> stories[i].why,
               project_id |-> project_id]]
    /\ issued' = issued + Len(stories)
    /\ diag' = NoDiagram
    /\ UNCHANGED <<store, pc, pending, done, last, lastCl, prevCl, keyed, use_cases,
                   extraVars>>

\* stories a language model may return: texts with quotes, whitespace runs
\* and capitals, an empty who, an empty what, an absent and an empty why
AiExportAdmin ==
    [who |-> <<"Admin">>, what |-> <<"Export", " ", "Reports">>,
     why |-> Some(<<"audits">>)]

AiExportSpaces ==
    [who |-> <<"admin">>, what |-> <<"export", " ", "TAB", " ", "reports">>,
     why |-> Some(<<"audits">>)]

AiExportNoWho ==
    [who |-> <<>>, what |-> <<"export", " ", "reports">>, why |-> Some(<<"speed">>)]

AiNoWhat == [who |-> <<"Admin">>, what |-> <<>>, why |-> NoneVal]

AiSyncEmptyWhy ==
    [who |-> <<"Admin", " ", " ", "team">>, what |-> <<"sync", " ", "data">>,
     why |-> Some(<<>>)]

AiSyncQuoted ==
    [who |-> <<"user">>, what |-> <<"(", "Sync", " ", "data", ")">>, why |-> NoneVal]

AiOutputs ==
    {<<AiExportAdmin, AiExportSpaces>>, <<AiExportNoWho>>, <<AiNoWhat>>,
     <<AiSyncEmptyWhy, AiSyncQuoted>>}

\* the generation requests: project p1, and one story for project p2
AiRequests ==
    { [project_id |-> "p1", stories |-> stories] : stories \in AiOutputs }
        \cup { [project_id |-> "p2", stories |-> <<AiExportNoWho>>] }

\* stories in ai_stories_collection in a behaviour of SpecDiagram
MaxAiStories == 3

\* snapshots in the use-case collections in a behaviour
MaxSnapshots == 1

\* extracted stories in a behaviour of SpecDiagram
MaxDiagramStories == 1

DiagramContents == {DocNews}

\* project-wide synthesis over extracted stories and over generated stories
NextDiagram ==
    \/ \E req \in AiRequests :
            /\ Len(ai_store) + Len(req.stories) <= MaxAiStories
            /\ generate_ai_user_stories(req.project_id, req.stories)
    \/ \E content \in DiagramContents :
            /\ Len(store) < MaxDiagramStories
            /\ ExtractBuild("w1", "news", "s1", content, "p1", 0, TRUE)
    \/ ExtractInsert("w1")
    \/ \E project_id \in Projects, backwards \in BOOLEAN :
            /\ Len(use_cases) < MaxSnapshots
            /\ create_use_case_diagrams_by_project(project_id, backwards)
    \/ \E project_id \in Projects, backwards \in BOOLEAN :
            /\ Len(use_cases) < MaxSnapshots
            /\ create_use_case_diagrams_from_ai_stories(project_id, backwards)

SpecDiagram == Init /\ [][NextDiagram]_vars

\* the i-th of a family of generated stories with pairwise distinct use
\* cases and three actors in turn
ChunkStory(i) ==
    [who |-> IF i % 3 = 0 THEN <<"Admin">>
             ELSE IF i % 3 = 1 THEN <<"user">> ELSE <<"guest">>,
     what |-> <<"task", " ", ToString(i)>>,
     why |-> NoneVal]

\* the next n stories of the family, followed by the first of them again
\* when repeat is set
ChunkBatch(from, n, repeat) ==
    [i \in 1..n |-> ChunkStory(from + i)]
        \o (IF repeat THEN <<ChunkStory(from + 1)>> ELSE <<>>)

\* stories in ai_stories_collection in a behaviour of SpecChunk
MaxChunkStories == 14

\* project-wide synthesis over enough use cases for several chunks
NextChunk ==
    \/ \E n \in {2, 3}, repeat \in BOOLEAN :
            /\ Len(ai_store) + n + 1 <= MaxChunkStories
            /\ generate_ai_user_stories("p1", ChunkBatch(Len(ai_store), n, repeat))
    \/ \E backwards \in BOOLEAN :
            /\ Len(use_cases) < MaxSnapshots
            /\ create_use_case_diagrams_from_ai_stories("p1", backwards)

SpecChunk == Init /\ [][NextChunk]_vars

(* ---------------------- diagrams from clusters ------------------------ *)

\* the prefix of the representative's label
RepresentativeMarker == <<"[REPRESENTATIVE]", " ">>

\* mutant: the representative's use case is labelled like any other
RepresentativeGraphUnmarked(rep_story) ==
    LET rep_who == Strip(OrElse(rep_story.who, <<"user">>), Whitespace)
        rep_what == Strip(rep_story.what, Whitespace)
        rep_why == WhyOrNone(rep_story.why)
        actor_label == ActorLabel(rep_who)
        key == cluster_normalize_key(rep_what)
    IN  IF rep_what = <<>> THEN EmptyGraph
        ELSE [usecase_map |->
                 <<[key |-> key, label |-> rep_what,
                    whys |-> IF rep_why = NoneVal THEN <<>> ELSE <<rep_why[1]>>]>>,
              actor_set |-> {actor_label},
              edges |-> {<<actor_label, key>>}]

\* create_usecase_diagram_from_cluster, lines 263-278: the graph after the
\* representative story has been added
RepresentativeGraph(rep_story) ==
    LET rep_who == Strip(OrElse(rep_story.who, <<"user">>), Whitespace)
        rep_what == Strip(rep_story.what, Whitespace)
        rep_why == WhyOrNone(rep_story.why)
        actor_label == ActorLabel(rep_who)
        key == cluster_normalize_key(rep_what)
    IN  IF rep_what = <<>> THEN EmptyGraph
        ELSE [usecase_map |->
                 <<[key |-> key, label |-> RepresentativeMarker \o rep_what,
                    whys |-> IF rep_why = NoneVal THEN <<>> ELSE <<rep_why[1]>>]>>,
              actor_set |-> {actor_label},
              edges |-> {<<actor_label, key>>}]

\* lines 304-345: the one diagram of a graph, whatever its size.  The
\* actors and the edges are taken in sorted order, for which the order of
\* enumeration stands.
RenderSingle(g) ==
    LET actors_list == Enumerate(g.actor_set, FALSE)
        edge_list == Enumerate(g.edges, FALSE)
        keys == [n \in 1..Len(g.usecase_map) |-> g.usecase_map[n].key]
    IN  [part |-> 1, parts |-> 1,
         actors |-> [i \in 1..Len(actors_list) |->
                        [label |-> actors_list[i], alias |-> _alias("A", i)]],
         usecases |-> [i \in 1..Len(keys) |->
                        [key |-> keys[i], label |-> g.usecase_map[i].label,
                         alias |-> _alias("U", i)]],
         arrows |-> [i \in 1..Len(edge_list) |->
                        [from |-> _alias("A", PositionIn(edge_list[i][1], actors_list)),
                         to |-> _alias("U", PositionIn(edge_list[i][2], keys))]]]

\* mutant: an unknown cluster_id falls back to the first cluster
FindClusterOrFirst(clusters, cluster_id) ==
    LET at == { n \in 1..Len(clusters) : clusters[n].cluster_id = cluster_id }
    IN  IF at = {} THEN <<clusters[1]>> ELSE <<clusters[Min(at)]>>

\* lines 243-247: the first cluster with the cluster_id, None if there is none
FindCluster(clusters, cluster_id) ==
    LET at == { n \in 1..Len(clusters) : clusters[n].cluster_id = cluster_id }
    IN  IF at = {} THEN NoneVal ELSE Some(clusters[Min(at)])

\* the result of a synthesis from clusters
ClusterDiagramResult(op, project_id, cluster_id, distance_threshold, status,
                     records, rep, g, diagrams) ==
    [op |-> op, project_id |-> project_id, cluster_id |-> cluster_id,
     distance_threshold |-> distance_threshold, status |-> status,
     records |-> records, rep |-> rep,
     usecase_map |-> g.usecase_map, actor_set |-> g.actor_set, edges |-> g.edges,
     diagrams |-> diagrams,
     stats |-> IF diagrams = <<>>
               THEN [actors |-> 0, usecases |-> 0, edges |-> 0] ELSE Stats(g)]

\* create_usecase_diagram_from_cluster after line 231, result being the
\* outcome of cluster_and_summarize_stories
DiagramFromCluster(result, project_id, cluster_id, distance_threshold) ==
    LET cluster == FindCluster(result.clusters, cluster_id)
        rep_story == StoryView(cluster[1].representative_story)
        views == [n \in 1..Len(cluster[1].stories) |-> StoryView(cluster[1].stories[n])]
        g == CollectAll(RepresentativeGraph(rep_story), views, Len(views),
                        ClusterQuoteChars)
    IN  IF result.status = "ValueError"
        THEN ClusterDiagramResult("cluster", project_id, cluster_id,
                 distance_threshold, "ValueError", <<>>, NoneVal, EmptyGraph, <<>>)
        ELSE IF result.clusters = <<>> \/ cluster = NoneVal
        THEN ClusterDiagramResult("cluster", project_id, cluster_id,
                 distance_threshold, "ok", <<>>, NoneVal, EmptyGraph, <<>>)
        ELSE ClusterDiagramResult("cluster", project_id, cluster_id,
                 distance_threshold, "ok", views, Some(rep_story), g,
                 <<RenderSingle(g)>>)

\* GET /clustering/user_stories/{project_id}/{cluster_id}/usecase
create_usecase_diagram_from_cluster(project_id, cluster_id, distance_threshold) ==
    /\ \A w \in Workers : pc[w] = "idle"
    /\ \E result \in {cluster_and_summarize_stories(store, project_id,
                                                     distance_threshold)} :
          diag' = DiagramFromCluster(result, project_id, cluster_id,
                                     distance_threshold)
    /\ UNCHANGED <<store, issued, pc, pending, done, last, lastCl, prevCl,
                   ai_store, keyed, use_cases, extraVars>>

\* cluster_and_generate_usecases, lines 542-557: the body of the loop over
\* the clusters
CollectRepresentative(g, cluster) ==
    LET rep_story == StoryView(cluster.representative_story)
        rep_who == Strip(OrElse(rep_story.who, <<"user">>), Whitespace)
        rep_what == Strip(rep_story.what, Whitespace)
        rep_why == WhyOrNone(rep_story.why)
        actor_label == ActorLabel(rep_who)
        key == cluster_normalize_key(rep_what)
        added == IF HasKey(g.usecase_map, key)
                 THEN g.usecase_map
                 ELSE Append(g.usecase_map,
                             [key |-> key, label |-> rep_what, whys |-> <<>>,
                              cluster_id |-> cluster.cluster_id,
                              cluster_size |-> cluster.size])
    IN  IF rep_what = <<>> THEN g
        ELSE [usecase_map |-> AddWhy(added, key, rep_why),
              actor_set |-> g.actor_set \cup {actor_label},
              edges |-> g.edges \cup {<<actor_label, key>>}]

RECURSIVE CollectRepresentatives(_, _)
CollectRepresentatives(clusters, n) ==
    IF n = 0 THEN EmptyGraph
    ELSE CollectRepresentative(CollectRepresentatives(clusters, n - 1), clusters[n])

\* cluster_and_generate_usecases after line 517, clustering_result being
\* the outcome of cluster_and_summarize_stories
DiagramFromRepresentatives(clustering_result, project_id, distance_threshold) ==
    LET reps == [n \in 1..Len(clustering_result.clusters) |->
                    StoryView(clustering_result.clusters[n].representative_story)]
        g == CollectRepresentatives(clustering_result.clusters,
                                    Len(clustering_result.clusters))
    IN  IF clustering_result.status = "ValueError"
        THEN ClusterDiagramResult("representatives", project_id, 0,
                 distance_threshold, "ValueError", <<>>, NoneVal, EmptyGraph, <<>>)
        ELSE IF clustering_result.clusters = <<>>
        THEN ClusterDiagramResult("representatives", project_id, 0,
                 distance_threshold, "ok", <<>>, NoneVal, EmptyGraph, <<>>)
        ELSE ClusterDiagramResult("representatives", project_id, 0,
                 distance_threshold, "ok", reps, NoneVal, g, <<RenderSingle(g)>>)

\* GET /clustering/user_stories/{project_id}/with-usecases
cluster_and_generate_usecases(project_id, distance_threshold) ==
    /\ \A w \in Workers : pc[w] = "idle"
    /\ \E clustering_result \in {cluster_and_summarize_stories(store, project_id,
                                                               distance_threshold)} :
          diag' = DiagramFromRepresentatives(clustering_result, project_id,
                                             distance_threshold)
    /\ UNCHANGED <<store, issued, pc, pending, done, last, lastCl, prevCl,
                   ai_store, keyed, use_cases, extraVars>>

\* a news text of seven sentences with seven different use cases
SentShare == [words |-> <<"share", "photos">>, ents |-> <<>>]

SentPrint == [words |-> <<"print", "invoices">>, ents |-> <<>>]

SentScan == [words |-> <<"scan", "receipts">>, ents |-> <<>>]

SentTrack == [words |-> <<"track", "orders">>, ents |-> <<>>]

DocMany ==
    [isStr |-> TRUE,
     sents |-> <<SentExport, SentSync, SentWeather, SentShare, SentPrint, SentScan,
                 SentTrack>>,
     matches |-> [n \in 1..7 |-> [sent |-> n, from |-> 1, to |-> 2]]]

\* a news text of four sentences: one use case under two spellings, another
\* use case, and one of an organisation
DocCapsNews ==
    [isStr |-> TRUE, sents |-> <<SentExportCaps, SentExport, SentWeather, SentNews>>,
     matches |-> <<[sent |-> 1, from |-> 1, to |-> 2],
                   [sent |-> 2, from |-> 1, to |-> 2],
                   [sent |-> 3, from |-> 1, to |-> 2],
                   [sent |-> 4, from |-> 5, to |-> 6]>>]

ClusterDiagramContents == {DocMany, DocCapsNews}

\* stored stories in a behaviour of SpecClusterDiagram
MaxClusterDiagramStories == 9

\* generated stories without what text in a behaviour of SpecClusterDiagram
MaxBlankStories == 1

\* distance thresholds of the diagram requests, in fiftieths: 0 and 0.5
DiagramThresholds == {0, 25}

\* cluster ids asked for: the first clusters and one that never exists
ClusterIds == {0, 1, 99}

\* diagrams from one cluster and from the representatives of all clusters,
\* next to project-wide synthesis over generated stories without what text
NextClusterDiagram ==
    \/ \E content \in ClusterDiagramContents, dedupe \in BOOLEAN :
            /\ Len(store) + Len(content.matches) <= MaxClusterDiagramStories
            /\ ExtractBuild("w1", "news", "s1", content, "p1", 0, dedupe)
    \/ ExtractInsert("w1")
    \/ /\ Len(ai_store) < MaxBlankStories
       /\ generate_ai_user_stories("p1", <<AiNoWhat>>)
    \/ \E project_id \in Projects, cluster_id \in ClusterIds,
          distance_threshold \in DiagramThresholds :
            create_usecase_diagram_from_cluster(project_id, cluster_id,
                                                distance_threshold)
    \/ \E project_id \in Projects, distance_threshold \in DiagramThresholds :
            cluster_and_generate_usecases(project_id, distance_threshold)
    \/ \E project_id \in Projects :
            create_use_case_diagrams_from_ai_stories(project_id, FALSE)

SpecClusterDiagram == Init /\ [][NextClusterDiagram]_vars

(* ------------------------- extraction claims -------------------------- *)

\* the candidates of a call that pass the relevance filter, in candidate order
Filtered(call) ==
    _filter_by_software_context(Candidates(call.source, call.content),
                                software_functionality_dict, call.min_similarity)

SameIgnoringCase(a, b) ==
    /\ Lower(a.who) = Lower(b.who)
    /\ Lower(a.what) = Lower(b.what)
    /\ Lower(WhyOrEmpty(a.why)) = Lower(WhyOrEmpty(b.why))
    /\ Lower(a.full_sentence) = Lower(b.full_sentence)

\* the positions of F that are the first of their group of case-equal tuples
FirstOfGroup(F) ==
    { i \in 1..Len(F) : \A j \in 1..(i - 1) : ~SameIgnoringCase(F[j], F[i]) }

IsRecordOf(m, c) ==
    /\ m.who = c.who
    /\ m.what = c.what
    /\ m.why = c.why
    /\ m.full_sentence = c.full_sentence

\* C5: with dedupe=true the returned list holds no two records whose
\* (who, what, why, full_sentence) are equal ignoring case (None why as ""),
\* it holds exactly the first candidate of every such group, and the kept
\* records are in candidate order.
DedupCorrect ==
    (last.status = "ok" /\ last.dedupe) =>
        LET F == Filtered(last)
            K == FirstOfGroup(F)
            M == last.models
        IN  /\ \A i, j \in 1..Len(M) : i < j => ~SameIgnoringCase(M[i], M[j])
            /\ Len(M) = Cardinality(K)
            /\ \A k \in 1..Len(M) :
                 \E i \in K : /\ Cardinality({j \in K : j <= i}) = k
                              /\ IsRecordOf(M[k], F[i])

\* a call with dedupe=true dropped a candidate that differs from an earlier
\* one in letter case only, and kept a later candidate of another group
DedupWitness ==
    /\ last.status = "ok"
    /\ last.dedupe
    /\ Len(last.models) >= 2
    /\ \E i, j \in 1..Len(Filtered(last)) :
         /\ i < j
         /\ Filtered(last)[i].what # Filtered(last)[j].what
         /\ SameIgnoringCase(Filtered(last)[i], Filtered(last)[j])

\* the maximum of the similarities of a WHAT text against the vocabulary
TrueMaxSim(what) ==
    Max({ Similarity(what, software_functionality_dict[i]) :
            i \in 1..Len(software_functionality_dict) })

\* C6: every returned record carries the maximum similarity of its WHAT
\* against the vocabulary terms, that score is >= min_similarity, and every
\* candidate whose maximum similarity is below min_similarity is absent.
SimilarityScoreIsMaximum ==
    last.status = "ok" =>
        LET C == Candidates(last.source, last.content)
            M == last.models
        IN  /\ \A k \in 1..Len(M) :
                 /\ M[k].similarity_score = TrueMaxSim(M[k].what)
                 /\ M[k].similarity_score >= last.min_similarity
            /\ \A i \in 1..Len(C) :
                 TrueMaxSim(C[i].what) < last.min_similarity =>
                     ~\E k \in 1..Len(M) : IsRecordOf(M[k], C[i])

\* C7: a call whose source is not review, news or tweet fails with the
\* ValueError whatever the content is, and stores nothing.
InvalidSourceAlwaysFails ==
    (last.status # "none" /\ last.source \notin ValidSources) =>
        (last.status = "ValueError" /\ last.models = <<>>)

\* no record of the call survives: empty or non-string content, no
\* candidate, or every candidate below the threshold
NoSurvivor(call) ==
    \/ ~call.content.isStr
    \/ call.content.sents = <<>>
    \/ /\ call.source \in ValidSources
       /\ Filtered(call) = <<>>

\* C8: a call that finds no surviving record returns the empty list without
\* raising and leaves the story store as it was.
NoResultIsEmptyOk ==
    [][(done' = done + 1 /\ NoSurvivor(last')) =>
          (last'.status = "ok" /\ last'.models = <<>> /\ store' = store)]_vars

\* stories are stored and the last call had candidates, all filtered out
NoResultWitness ==
    /\ store # <<>>
    /\ last.status = "ok"
    /\ last.models = <<>>
    /\ last.source \in ValidSources
    /\ Candidates(last.source, last.content) # <<>>
    /\ NoSurvivor(last)

\* C9: all stored records, and the documents about to be inserted, have
\* pairwise distinct identifiers.
IdsDistinct ==
    LET all == store \o pending["w1"].models \o pending["w2"].models
    IN  \A i, j \in 1..Len(all) : i # j => all[i].id # all[j].id

\* a call has stored several records and another call, in flight, has
\* drawn identifiers for several more
IdsWitness ==
    /\ Len(store) >= 2
    /\ Len(last.models) >= 2
    /\ \E w \in Workers : pc[w] = "insert" /\ Len(pending[w].models) >= 2

\* C10: every completed call that returns n records appends exactly these n
\* records to the story store, whatever is stored already.
AtLeastOnce ==
    [][done' = done + 1 => store' = store \o last'.models]_vars

SameStory(a, b) ==
    /\ IsRecordOf(a, b)
    /\ a.source = b.source
    /\ a.source_id = b.source_id
    /\ a.project_id = b.project_id

\* two extractions of the same review have both stored the same story, the
\* second one stored while the first was stored already
AtLeastOnceWitness ==
    /\ \E i, j \in 1..Len(store) : i < j /\ SameStory(store[i], store[j])
    /\ Len(last.models) >= 1
    /\ \E i \in 1..(Len(store) - Len(last.models)) :
         SameStory(store[i], last.models[1])

\* C11: a call emits at most one record per sentence of the input text.
OneRecordPerSentence ==
    last.status = "ok" =>
        \A n \in 1..Len(last.content.sents) :
            Cardinality({ k \in 1..Len(last.models) :
                            last.models[k].full_sentence
                                = last.content.sents[n].words }) <= 1

\* C20: a failure on one sentence does not abort the call: every candidate
\* of the other sentences that passes the relevance filter is returned, and
\* the returned records are stored.
PartialBatchTolerated ==
    (last.status # "none" /\ last.source \in ValidSources
        /\ ~EmptyContent(last.content)) =>
        LET C == Candidates(last.source, last.content)
        IN  /\ \A i \in 1..Len(C) :
                 (/\ ~SimilarityRaises(C[i].what)
                  /\ Keeps(MaxSim(C[i].what, software_functionality_dict),
                           last.min_similarity)) =>
                     \E k \in 1..Len(last.models) : IsRecordOf(last.models[k], C[i])
            /\ \A k \in 1..Len(last.models) :
                 \E j \in 1..Len(store) : store[j] = last.models[k]

(* ------------------------- clustering claims -------------------------- *)

\* the stored stories of the project of a clustering call
ProjectStories(cl) ==
    { i \in 1..Len(store) : store[i].project_id = cl.project_id }

\* the (cluster, position) places of a cluster list that hold story i
PlacesOf(cs, i) ==
    { p \in (1..Len(cs)) \X (1..Len(store)) :
        /\ p[2] <= Len(cs[p[1]].stories)
        /\ cs[p[1]].stories[p[2]].id = store[i].id }

\* C1: the returned clusters partition the stories of the project: every
\* stored story of the project is a member of exactly one returned cluster.
ClustersPartition ==
    lastCl.status # "none" =>
        \A i \in ProjectStories(lastCl) :
            Cardinality(PlacesOf(lastCl.clusters, i)) = 1

\* cosine similarity to the centroid c: a is strictly more similar than b
CloserToCentroid(a, b, c) == Dot(a, c) * Norm(b) > Dot(b, c) * Norm(a)

\* the direction of the mean of the members' embeddings
CentroidOf(c) ==
    LET E == [k \in 1..Len(c.stories) |-> Embed(c.stories[k].what)]
    IN  <<VecSum(E)[1], VecSum(E)[2]>>

\* C2: in every returned cluster the representative is a member, no member
\* is strictly more similar (cosine) to the centroid of the members'
\* embeddings, and among equally similar members it is the first.
RepresentativeValid ==
    \A n \in 1..Len(lastCl.clusters) :
        LET c == lastCl.clusters[n]
            cen == CentroidOf(c)
        IN  \E r \in 1..Len(c.stories) :
              /\ c.stories[r] = c.representative_story
              /\ \A j \in 1..Len(c.stories) :
                   ~CloserToCentroid(Embed(c.stories[j].what),
                                     Embed(c.stories[r].what), cen)
              /\ \A j \in 1..(r - 1) :
                   CloserToCentroid(Embed(c.stories[r].what),
                                    Embed(c.stories[j].what), cen)

\* a returned cluster of three members, two of them with the same
\* embedding, whose representative is not its first member
RepresentativeWitness ==
    \E n \in 1..Len(lastCl.clusters) :
        LET c == lastCl.clusters[n]
        IN  /\ c.size = 3
            /\ c.representative_story # c.stories[1]
            /\ \E j, k \in 1..3 : j < k /\ c.stories[j].what = c.stories[k].what

\* C3: two clusterings of the same stories of a project: the one at the
\* greater threshold has no more clusters than the one at the smaller.
ClusteringMonotone ==
    (prevCl.status # "none" /\ lastCl.status # "none") =>
        /\ prevCl.distance_threshold < lastCl.distance_threshold =>
              Len(lastCl.clusters) <= Len(prevCl.clusters)
        /\ lastCl.distance_threshold < prevCl.distance_threshold =>
              Len(prevCl.clusters) <= Len(lastCl.clusters)

\* three stories clustered twice: more than one cluster at the greater
\* threshold, and more still at the smaller
MonotoneWitness ==
    /\ prevCl.status = "ok"
    /\ lastCl.status = "ok"
    /\ prevCl.distance_threshold < lastCl.distance_threshold
    /\ 1 < Len(lastCl.clusters)
    /\ Len(lastCl.clusters) < Len(prevCl.clusters)

SizesNonIncreasing(cs) ==
    \A m, n \in 1..Len(cs) : m < n => cs[m].size >= cs[n].size

CaseAndSpaceForm(s) == Lower(CollapseSpaces(s))

\* strings that differ only in letter case and whitespace runs share a key
NormalizeCaseSpaceInsensitive ==
    keyed.applied =>
        \A t \in KeyStrings :
            CaseAndSpaceForm(t) = CaseAndSpaceForm(keyed.s) =>
                /\ _normalize_key(t) = keyed.key
                /\ cluster_normalize_key(t) = keyed.cluster_key

\* C12: the key function is idempotent, and two strings that differ only in
\* letter case and in runs of whitespace have the same key.
NormalizeIdempotent ==
    /\ keyed.applied =>
          /\ keyed.rekey = keyed.key
          /\ keyed.cluster_rekey = keyed.cluster_key
    /\ NormalizeCaseSpaceInsensitive

\* the result of a project-wide synthesis (over extracted or generated stories)
ProjectWide == diag.status = "ok" /\ diag.op \in {"project", "ai"}

\* the records read by the synthesis that have a what text
WithWhat == { i \in 1..Len(diag.records) : diag.records[i].what # <<>> }

KeyOf(i) == _normalize_key(diag.records[i].what)

\* the records with a what text that have the key of record i
SameKey(i) == { j \in WithWhat : KeyOf(j) = KeyOf(i) }

\* the members of a sequence without repetitions, in order of first occurrence
RECURSIVE DistinctInOrder(_)
DistinctInOrder(xs) ==
    IF xs = <<>> THEN <<>>
    ELSE LET before == DistinctInOrder(SubSeq(xs, 1, Len(xs) - 1))
         IN  IF InSeq(xs[Len(xs)], before) THEN before
             ELSE Append(before, xs[Len(xs)])

\* the why texts of the records with the key of record i, in record order:
\* every non-null one, or only the non-empty ones
WhysOfKey(i, nonEmptyOnly) ==
    LET with == SelectSeq([j \in 1..Len(diag.records) |-> j],
                   LAMBDA j : /\ j \in SameKey(i)
                              /\ diag.records[j].why # NoneVal
                              /\ (nonEmptyOnly => diag.records[j].why[1] # <<>>))
    IN  DistinctInOrder([k \in 1..Len(with) |-> diag.records[with[k]].why[1]])

\* one node per key, labelled by the first record of the key, annotated by
\* the given why texts; no node without a record
CollapsesWith(nonEmptyOnly) ==
    ProjectWide =>
        /\ \A i \in WithWhat :
             /\ Cardinality({ n \in 1..Len(diag.usecase_map) :
                                diag.usecase_map[n].key = KeyOf(i) }) = 1
             /\ Entry(diag.usecase_map, KeyOf(i)).label
                    = diag.records[Min(SameKey(i))].what
             /\ Entry(diag.usecase_map, KeyOf(i)).whys = WhysOfKey(i, nonEmptyOnly)
        /\ \A n \in 1..Len(diag.usecase_map) :
             \E i \in WithWhat : KeyOf(i) = diag.usecase_map[n].key

\* C13, as claimed: records with the same normalized key collapse into one
\* use-case node, labelled with the what text of the first of them, whose
\* annotation list holds each distinct non-null why once, in first-seen order.
UseCaseCollapseNonNull == CollapsesWith(FALSE)

\* C13, amended: as above, the annotation list holding each distinct why
\* that is neither null nor the empty string.
UseCaseCollapse == CollapsesWith(TRUE)

\* three records of one key with different what texts and a repeated why
\* have become one node with two annotations
UseCaseCollapseWitness ==
    /\ ProjectWide
    /\ \E i \in WithWhat :
         /\ Cardinality(SameKey(i)) >= 3
         /\ \E j \in SameKey(i) : diag.records[j].what # diag.records[i].what
         /\ \E j, k \in SameKey(i) :
              j # k /\ diag.records[j].why = diag.records[k].why
                    /\ diag.records[j].why # NoneVal
         /\ Len(Entry(diag.usecase_map, KeyOf(i)).whys) = 2

\* the edges a graph should have: one per record with a what text
ExpectedEdges ==
    { <<ActorLabel(OrElse(diag.records[i].who, <<"user">>)), KeyOf(i)>> :
        i \in WithWhat }

\* C14: the edges are exactly the pairs (normalized who, use-case key) of
\* the records with a what text, the actors and the use-case keys are the
\* two projections of the edges, and the stats are the sizes of the three.
GraphConsistent ==
    ProjectWide =>
        LET keys == { diag.usecase_map[n].key : n \in 1..Len(diag.usecase_map) }
        IN  /\ diag.edges = ExpectedEdges
            /\ diag.actor_set = { e[1] : e \in diag.edges }
            /\ keys = { e[2] : e \in diag.edges }
            /\ Cardinality(keys) = Len(diag.usecase_map)
            /\ diag.stats.actors = Cardinality(diag.actor_set)
            /\ diag.stats.usecases = Cardinality(keys)
            /\ diag.stats.edges = Cardinality(diag.edges)

\* a graph with more edges than use cases, two actors, an actor named by
\* default, and a record without what text left out
GraphWitness ==
    /\ ProjectWide
    /\ Cardinality(diag.edges) > Len(diag.usecase_map)
    /\ Cardinality(diag.actor_set) >= 2
    /\ \E i \in WithWhat : diag.records[i].who = <<>>
    /\ Len(diag.records) >= 3

\* the keys of the use cases, in the order of the use-case list
UsecaseKeys == [n \in 1..Len(diag.usecase_map) |-> diag.usecase_map[n].key]

\* the keys declared by the chunks, chunk after chunk
RECURSIVE ChunkKeysUpTo(_)
ChunkKeysUpTo(c) ==
    IF c = 0 THEN <<>>
    ELSE ChunkKeysUpTo(c - 1)
            \o [n \in 1..Len(diag.diagrams[c].usecases) |->
                    diag.diagrams[c].usecases[n].key]

\* C15: n >= 1 distinct use cases are emitted in ceil(n/k) chunks of at
\* most k use cases each, which concatenate to the use-case list, and that
\* list is in first-seen order.
ChunkRule ==
    (ProjectWide /\ Len(diag.usecase_map) >= 1) =>
        LET n == Len(diag.usecase_map)
            k == MAX_USECASES_PER_DIAGRAM
            chunks == Len(diag.diagrams)
        IN  /\ chunks * k >= n
            /\ (chunks - 1) * k < n
            /\ \A c \in 1..chunks : Len(diag.diagrams[c].usecases) <= k
            /\ ChunkKeysUpTo(chunks) = UsecaseKeys
            /\ UsecaseKeys
                  = DistinctInOrder([m \in 1..Len(diag.records) |-> KeyOf(m)])

\* thirteen use cases in three chunks, the last of one use case, from
\* records of which one repeats a use case
ChunkWitness ==
    /\ ProjectWide
    /\ Len(diag.usecase_map) = 2 * MAX_USECASES_PER_DIAGRAM + 1
    /\ Len(diag.diagrams) = 3
    /\ Len(diag.diagrams[3].usecases) = 1
    /\ Len(diag.records) > Len(diag.usecase_map)

\* the actor label and use-case key an arrow of a chunk stands for
ArrowEdge(d, arrow) ==
    <<d.actors[CHOOSE a \in 1..Len(d.actors) : d.actors[a].alias = arrow.from].label,
      d.usecases[CHOOSE u \in 1..Len(d.usecases) : d.usecases[u].alias = arrow.to].key>>

\* the arrows of chunk c that stand for edge e
ArrowsFor(c, e) ==
    { m \in 1..Len(diag.diagrams[c].arrows) :
        /\ \E a \in 1..Len(diag.diagrams[c].actors) :
              diag.diagrams[c].actors[a].alias = diag.diagrams[c].arrows[m].from
        /\ \E u \in 1..Len(diag.diagrams[c].usecases) :
              diag.diagrams[c].usecases[u].alias = diag.diagrams[c].arrows[m].to
        /\ ArrowEdge(diag.diagrams[c], diag.diagrams[c].arrows[m]) = e }

\* the keys of the c-th chunk of the use-case list
KeysOfChunk(c) ==
    { UsecaseKeys[n] : n \in { m \in 1..Len(UsecaseKeys) :
        (m - 1) \div MAX_USECASES_PER_DIAGRAM = c - 1 } }

\* C17: a chunk declares exactly its use cases, renders exactly the edges of
\* these use cases, declares exactly the actors of these edges, under
\* aliases A1.., U1.. that are distinct within the chunk and start again in
\* every chunk; over all chunks every edge of the graph is rendered once.
ChunkSelfContained ==
    ProjectWide =>
        /\ \A c \in 1..Len(diag.diagrams) :
             LET d == diag.diagrams[c]
                 own == { e \in diag.edges : e[2] \in KeysOfChunk(c) }
             IN  /\ { d.usecases[u].key : u \in 1..Len(d.usecases) } = KeysOfChunk(c)
                 /\ Len(d.usecases) = Cardinality(KeysOfChunk(c))
                 /\ \A u \in 1..Len(d.usecases) :
                      /\ d.usecases[u].alias = <<"U", u>>
                      /\ d.usecases[u].label
                            = Entry(diag.usecase_map, d.usecases[u].key).label
                 /\ { d.actors[a].label : a \in 1..Len(d.actors) }
                       = { e[1] : e \in own }
                 /\ Len(d.actors) = Cardinality({ e[1] : e \in own })
                 /\ \A a \in 1..Len(d.actors) : d.actors[a].alias = <<"A", a>>
                 /\ Len(d.arrows) = Cardinality(own)
                 /\ \A e \in own : Cardinality(ArrowsFor(c, e)) = 1
        /\ \A e \in diag.edges :
             Cardinality({ c \in 1..Len(diag.diagrams) : ArrowsFor(c, e) # {} }) = 1

\* two chunks that both declare an actor, the second with several actors
\* and several arrows, and an actor of the graph that it does not declare
ChunkSelfContainedWitness ==
    /\ ProjectWide
    /\ Len(diag.diagrams) >= 2
    /\ \E a \in 1..Len(diag.diagrams[1].actors), b \in 1..Len(diag.diagrams[2].actors) :
         diag.diagrams[1].actors[a].label = diag.diagrams[2].actors[b].label
    /\ Len(diag.diagrams[2].actors) >= 2
    /\ Len(diag.diagrams[2].arrows) >= 2
    /\ Len(diag.diagrams[2].actors) < Cardinality(diag.actor_set)

\* the result of a synthesis from one cluster or from the representatives
FromClusters == diag.status = "ok" /\ diag.op \in {"cluster", "representatives"}

\* C16: synthesis from a single cluster and from the representatives of all
\* clusters obeys the chunking rule: more than k use cases come in several
\* chunks of at most k use cases each.
ClusterSynthesisChunked ==
    (FromClusters /\ Len(diag.usecase_map) > MAX_USECASES_PER_DIAGRAM) =>
        /\ Len(diag.diagrams) >= 2
        /\ \A c \in 1..Len(diag.diagrams) :
             Len(diag.diagrams[c].usecases) <= MAX_USECASES_PER_DIAGRAM

ZeroStats == [actors |-> 0, usecases |-> 0, edges |-> 0]

EmptyResult == diag.status = "ok" /\ diag.diagrams = <<>> /\ diag.stats = ZeroStats

\* the clusters the request of the last synthesis from clusters was given
ClustersOfRequest ==
    cluster_and_summarize_stories(store, diag.project_id, diag.distance_threshold)

BlankSynthesisWitness ==
    /\ diag.op = "ai"
    /\ Len(diag.records) >= 1
    /\ WithWhat = {}
    /\ EmptyResult

HasMarker(label) ==
    /\ Len(label) >= Len(RepresentativeMarker)
    /\ SubSeq(label, 1, Len(RepresentativeMarker)) = RepresentativeMarker

\* C19: in a diagram from one cluster whose representative has a what text,
\* exactly one use-case label carries the marker, that of the node keyed by
\* the representative's normalized what; every other node is labelled with
\* the plain what text of its first member.
RepresentativeMarked ==
    (diag.op = "cluster" /\ diag.status = "ok" /\ diag.rep # NoneVal
        /\ diag.rep[1].what # <<>>) =>
        LET marked == { n \in 1..Len(diag.usecase_map) :
                          HasMarker(diag.usecase_map[n].label) }
        IN  /\ Cardinality(marked) = 1
            /\ \A n \in marked :
                 /\ diag.usecase_map[n].key = cluster_normalize_key(diag.rep[1].what)
                 /\ diag.usecase_map[n].label
                       = RepresentativeMarker \o diag.rep[1].what
            /\ \A n \in (1..Len(diag.usecase_map)) \ marked :
                 /\ diag.usecase_map[n].key # cluster_normalize_key(diag.rep[1].what)
                 /\ \E i \in 1..Len(diag.records) :
                      /\ cluster_normalize_key(diag.records[i].what)
                            = diag.usecase_map[n].key
                      /\ diag.usecase_map[n].label = diag.records[i].what
                      /\ \A j \in 1..(i - 1) :
                           cluster_normalize_key(diag.records[j].what)
                             # diag.usecase_map[n].key

\* a cluster of several use cases in which a member other than the
\* representative has the representative's key under another what text
RepresentativeMarkedWitness ==
    /\ diag.op = "cluster"
    /\ diag.status = "ok"
    /\ diag.rep # NoneVal
    /\ Len(diag.usecase_map) >= 2
    /\ \E i \in 1..Len(diag.records) :
         /\ diag.records[i].what # diag.rep[1].what
         /\ cluster_normalize_key(diag.records[i].what)
               = cluster_normalize_key(diag.rep[1].what)

\* a single diagram of more than k use cases
UnchunkedWitness ==
    /\ FromClusters
    /\ Len(diag.usecase_map) > MAX_USECASES_PER_DIAGRAM
    /\ Len(diag.diagrams) = 1

(* ------------------------ the two key normalizers --------------------- *)

\* C30: the normalizer of project-wide synthesis and the normalizer of
\* cluster-based synthesis return the same key for every string, so two what
\* texts collapse in one path exactly when they collapse in the other.
NormalizersAgree ==
    keyed.applied =>
        /\ keyed.key = keyed.cluster_key
        /\ \A t \in KeyStrings :
             (_normalize_key(t) = keyed.key)
                 <=> (cluster_normalize_key(t) = keyed.cluster_key)

(* ----------------------- the WHO aspect identifier -------------------- *)

\* the tokens of a parsed sentence: text, dependency label, entity type,
\* part of speech, and the WordNet lexical categories of the lower-cased text
TokAdmin ==
    [text |-> "admin", dep |-> "nsubj", ent_type |-> "", pos |-> "NOUN",
     lexnames |-> {"noun.person"}]

TokManager ==
    [text |-> "manager", dep |-> "pobj", ent_type |-> "", pos |-> "NOUN",
     lexnames |-> {"noun.person"}]

TokReports ==
    [text |-> "reports", dep |-> "dobj", ent_type |-> "", pos |-> "NOUN",
     lexnames |-> {"noun.communication"}]

TokThey ==
    [text |-> "they", dep |-> "nsubjpass", ent_type |-> "", pos |-> "PRON",
     lexnames |-> {}]

TokAcme ==
    [text |-> "ACME", dep |-> "dobj", ent_type |-> "ORG", pos |-> "PROPN",
     lexnames |-> {}]

TokTeam ==
    [text |-> "team", dep |-> "compound", ent_type |-> "", pos |-> "NOUN",
     lexnames |-> {"noun.group"}]

Tokens == {TokAdmin, TokManager, TokReports, TokThey, TokAcme, TokTeam}

\* tokens in a sentence given to identify_who_aspect
MaxSentLen == 3

Sentences == UNION { [1..n -> Tokens] : n \in 0..MaxSentLen }

target_dependencies == {"nsubj", "nsubjpass", "dobj", "pobj"}

target_lexnames == {"noun.person", "noun.group", "noun.artifact"}

\* lines 44-60: the three criteria of a token
Qualifies(token) ==
    \/ token.ent_type \in {"PERSON", "ORG", "NORP"}
    \/ token.pos = "PRON"
    \/ token.lexnames \cap target_lexnames # {}

\* lines 36-61: the set aspect_of_who
aspect_of_who(sent_span) ==
    { sent_span[i].text : i \in { k \in 1..Len(sent_span) :
                                    /\ sent_span[k].dep \in target_dependencies
                                    /\ Qualifies(sent_span[k]) } }

\* identify_who_aspect(sent_span).  list(aspect_of_who)[0] is the first
\* element of a set of strings in iteration order, which follows the string
\* hashes of the running process: any element of the set.
identify_who_aspect(sent_span) ==
    \E who \in (IF aspect_of_who(sent_span) = {} THEN {"user"}
                 ELSE aspect_of_who(sent_span)) :
        /\ who_aspect' = [applied |-> TRUE, sent |-> sent_span, who |-> who]
        /\ UNCHANGED <<coreVars, relevance, news, fetch, maint>>

NextWho == \E sent_span \in Sentences : identify_who_aspect(sent_span)

SpecWho == Init /\ [][NextWho]_vars

\* the positions of the tokens that qualify, in scan order
QualifyingPositions(sent_span) ==
    { k \in 1..Len(sent_span) :
        /\ sent_span[k].dep \in target_dependencies
        /\ Qualifies(sent_span[k]) }

\* the literal "user" exactly when no token qualifies
WhoDefaultsToUser ==
    who_aspect.applied =>
        /\ QualifyingPositions(who_aspect.sent) = {} => who_aspect.who = "user"
        /\ QualifyingPositions(who_aspect.sent) # {} =>
              \E k \in QualifyingPositions(who_aspect.sent) :
                  who_aspect.who = who_aspect.sent[k].text

\* C26: the WHO extractor returns the first qualifying token in scan order,
\* and "user" exactly when no token qualifies.
WhoIsFirstQualifying ==
    who_aspect.applied =>
        IF QualifyingPositions(who_aspect.sent) = {}
        THEN who_aspect.who = "user"
        ELSE who_aspect.who
               = who_aspect.sent[Min(QualifyingPositions(who_aspect.sent))].text

(* ------------------- the relevance filter and its vocabulary ---------- *)

\* candidates of the review extractor, one per sentence of the corpus
FilterCandidates ==
    { _extract_from_review(doc)[1] : doc \in {DocExport, DocSync, DocWeather, DocExportCaps} }
        \cup { _extract_from_review(DocFault)[2] }

\* candidates in one call of the filter
MaxFilterCands == 2

CandidateLists == UNION { [1..n -> FilterCandidates] : n \in 0..MaxFilterCands }

\* the vocabularies handed to the filter: none, one keyword, the dictionary
Vocabularies == {<<>>, <<"export">>, software_functionality_dict}

\* _filter_by_software_context(cands, keywords, threshold), lines 86-100;
\* an exception of the NLP pipeline leaves the function
FilterCall(cands, keywords, threshold) ==
    /\ relevance' =
          IF FilterRaises(cands)
          THEN [applied |-> TRUE, cands |-> cands, keywords |-> keywords,
                threshold |-> threshold, status |-> "Exception", kept |-> <<>>]
          ELSE [applied |-> TRUE, cands |-> cands, keywords |-> keywords,
                threshold |-> threshold, status |-> "ok",
                kept |-> _filter_by_software_context(cands, keywords, threshold)]
    /\ UNCHANGED <<coreVars, who_aspect, news, fetch, maint>>

NextFilter ==
    \E cands \in CandidateLists, keywords \in Vocabularies,
       threshold \in MinSimilarities :
        FilterCall(cands, keywords, threshold)

SpecFilter == Init /\ [][NextFilter]_vars

\* C21: with an empty (unavailable) vocabulary the filter ends in an error;
\* it neither keeps every candidate nor drops every candidate silently.
EmptyVocabularyFails ==
    (relevance.applied /\ relevance.keywords = <<>> /\ relevance.cands # <<>>)
        => relevance.status = "Exception"

\* what the filter does on an empty vocabulary: every score is the initial
\* 0.0, so everything is kept at threshold 0 and nothing above it
EmptyVocabularySilent ==
    (relevance.applied /\ relevance.keywords = <<>> /\ relevance.status = "ok") =>
        /\ relevance.threshold <= 0 =>
              /\ Len(relevance.kept) = Len(relevance.cands)
              /\ \A i \in 1..Len(relevance.kept) : relevance.kept[i].similarity = 0
        /\ relevance.threshold > 0 => relevance.kept = <<>>

(* --------------------------- fetching the news ------------------------ *)

Queries == {"q1", "q2"}

\* what scrap_news returns for a query: the links of the articles found
ScrapeResults == {<<>>, <<"a1">>, <<"a1", "a2">>}

\* articles in news_collection in a behaviour
MaxNews == 4

\* news_collection.find({"query": query, "project_id": project_id})
existing_articles(coll, project_id, query) ==
    SelectSeq(coll, LAMBDA a : a.query = query /\ a.project_id = project_id)

\* get_news up to "await asyncio.to_thread(scrap_news, ...)": the stored
\* articles are returned if there are any, else the coroutine is suspended
\* while the scraper runs in a thread
GetNewsCheck(w, project_id, query) ==
    /\ fetch[w].pc = "idle"
    /\ fetch' = [fetch EXCEPT ![w] =
          IF existing_articles(news, project_id, query) # <<>>
          THEN [pc |-> "idle", project_id |-> project_id, query |-> query,
                status |-> "stored",
                returned |-> existing_articles(news, project_id, query)]
          ELSE [pc |-> "scrape", project_id |-> project_id, query |-> query,
                status |-> "none", returned |-> <<>>]]
    /\ UNCHANGED <<coreVars, who_aspect, relevance, news, maint>>

\* processed_articles, with the _id insert_many gives each
processed_articles(articles, project_id, query, base) ==
    [i \in 1..Len(articles) |->
        [id |-> base + i, link |-> articles[i], query |-> query,
         project_id |-> project_id]]

\* get_news after the await: nothing found returns [], else insert_many and
\* the inserted articles are returned
GetNewsInsert(w, articles) ==
    /\ fetch[w].pc = "scrape"
    /\ Len(news) + Len(articles) <= MaxNews
    /\ news' = news \o processed_articles(articles, fetch[w].project_id,
                                          fetch[w].query, Len(news))
    /\ fetch' = [fetch EXCEPT ![w] =
          [pc |-> "idle", project_id |-> fetch[w].project_id,
           query |-> fetch[w].query,
           status |-> IF articles = <<>> THEN "empty" ELSE "scraped",
           returned |-> processed_articles(articles, fetch[w].project_id,
                                           fetch[w].query, Len(news))]]
    /\ UNCHANGED <<coreVars, who_aspect, relevance, maint>>

NextNews ==
    \/ \E w \in Workers, project_id \in Projects, query \in Queries :
            GetNewsCheck(w, project_id, query)
    \/ \E w \in Workers, articles \in ScrapeResults : GetNewsInsert(w, articles)

SpecNews == Init /\ [][NextNews]_vars

\* C29: for a project and query the scraped articles are stored at most
\* once: no two stored articles are copies of each other (same project,
\* query and link), whether the fetches were one after the other or
\* concurrent.
StoredAtMostOnce ==
    \A i, j \in 1..Len(news) :
        (i # j /\ news[i].project_id = news[j].project_id
               /\ news[i].query = news[j].query)
            => news[i].link # news[j].link

\* fetches one after the other: a fetch that starts when articles are stored
\* for its project and query returns them and stores nothing
LaterFetchReturnsStored ==
    \A w \in Workers :
        fetch[w].status = "stored" =>
            /\ fetch[w].returned # <<>>
            /\ \A k \in 1..Len(fetch[w].returned) :
                 \E i \in 1..Len(news) : news[i] = fetch[w].returned[k]

(* ------------------------ the agent of a review ----------------------- *)

\* "The admin wants to export reports so that audits are faster."; the
\* matcher finds NOUN VERB in "admin wants" and VERB NOUN in "export reports"
SentAdmin ==
    [words |-> <<"The", "admin", "wants", "to", "export", "reports", "so", "that",
                 "audits", "are", "faster", ".">>,
     ents |-> <<>>]

DocAdmin ==
    [isStr |-> TRUE, sents |-> <<SentAdmin>>,
     matches |-> <<[sent |-> 1, from |-> 2, to |-> 3],
                   [sent |-> 1, from |-> 5, to |-> 6]>>]

ReviewContents == {DocAdmin, DocExport, DocNews}

\* stories stored in a behaviour of SpecReview
MaxReviewStories == 3

\* one text after the other, extracted as a review, a news text or a tweet
NextReview ==
    \/ \E source \in ValidSources, content \in ReviewContents,
          min_similarity \in MinSimilarities, dedupe \in BOOLEAN :
            /\ Len(store) + Len(content.matches) <= MaxReviewStories
            /\ ExtractBuild("w1", source, "s1", content, "p1", min_similarity, dedupe)
    \/ ExtractInsert("w1")

SpecReview == Init /\ [][NextReview]_vars

\* the tokens that name an agent (a person or role)
AgentTokens == {"admin", "ACME"}

\* the agents of a sentence, in the order of the sentence
AgentPositions(words) == { k \in 1..Len(words) : words[k] \in AgentTokens }

\* C22: a record extracted with source review from a sentence that has an
\* agent token has that agent as its who; who is "user" only when the
\* sentence has no agent.
ReviewWhoIsAgent ==
    \A i \in 1..Len(store) :
        store[i].source = "review" =>
            IF AgentPositions(store[i].full_sentence) = {}
            THEN store[i].who = UserWho
            ELSE store[i].who
                   = <<store[i].full_sentence[Min(AgentPositions(store[i].full_sentence))]>>

\* what the review extractor does: who is "user" whatever the sentence
ReviewWhoIsUser ==
    \A i \in 1..Len(store) : store[i].source = "review" => store[i].who = UserWho

(* ------------------------ the latest snapshot ------------------------- *)

\* a response of a read or maintenance request, the n-th of the behaviour
Response(op, project_id, status, count, diagrams, stats) ==
    [n |-> maint.n + 1, op |-> op, project_id |-> project_id, status |-> status,
     count |-> count, diagrams |-> diagrams, stats |-> stats]

\* use_cases_collection.find({"project_id": project_id})
SnapshotsOf(coll, project_id) ==
    SelectSeq(coll, LAMBDA d : d.op = "project" /\ d.project_id = project_id)

\* mutant: sort("generated_at", 1), the oldest snapshot first
SortOldestFirst(docs) ==
    CHOOSE d \in { docs[i] : i \in 1..Len(docs) } :
        \A i \in 1..Len(docs) : docs[i].generated_at >= d.generated_at

\* .sort("generated_at", -1).limit(1): the snapshot generated last
SortLatestFirst(docs) ==
    CHOOSE d \in { docs[i] : i \in 1..Len(docs) } :
        \A i \in 1..Len(docs) : docs[i].generated_at <= d.generated_at

\* GET /usecases/diagram/{project_id}
get_latest_usecase_diagram(project_id) ==
    LET docs == SnapshotsOf(use_cases, project_id)
    IN  /\ maint' =
              IF docs = <<>>
              THEN Response("latest", project_id, "404", 0, <<>>,
                            [actors |-> 0, usecases |-> 0, edges |-> 0])
              ELSE Response("latest", project_id, "ok", 0,
                            SortLatestFirst(docs).diagrams,
                            SortLatestFirst(docs).stats)
        /\ UNCHANGED <<coreVars, who_aspect, relevance, news, fetch>>

\* stories stored in a behaviour of SpecSnapshot
MaxSnapshotStories == 2

\* snapshots generated in a behaviour of SpecSnapshot
MaxGenerated == 3

\* get-latest requests in a behaviour of SpecSnapshot
MaxReads == 2

SnapshotContents == {DocNews, DocExport}

\* news texts of two projects are extracted, diagrams are generated and the
\* latest diagram is read
NextSnapshot ==
    \/ \E content \in SnapshotContents, project_id \in Projects :
            /\ issued < MaxSnapshotStories
            /\ ExtractBuild("w1", "news", "s1", content, project_id, 0, TRUE)
    \/ ExtractInsert("w1")
    \/ \E project_id \in Projects, backwards \in BOOLEAN :
            /\ Len(use_cases) < MaxGenerated
            /\ create_use_case_diagrams_by_project(project_id, backwards)
    \/ \E project_id \in Projects :
            /\ maint.n < MaxReads
            /\ get_latest_usecase_diagram(project_id)

SpecSnapshot == Init /\ [][NextSnapshot]_vars

\* stories extracted in a behaviour of SpecInterleave
MaxInterleaveStories == 3

\* two worker threads extracting news texts of one project while its stories
\* are clustered and its diagrams are generated
NextInterleave ==
    \/ \E w \in Workers, content \in SnapshotContents :
            /\ issued < MaxInterleaveStories
            /\ ExtractBuild(w, "news", "s1", content, "p1", 0, TRUE)
    \/ \E w \in Workers : ExtractInsert(w)
    \/ Cluster("p1", 25)
    \/ \E backwards \in BOOLEAN :
            /\ Len(use_cases) < MaxSnapshots
            /\ create_use_case_diagrams_by_project("p1", backwards)
    \/ \E cluster_id \in {0, 1} :
            create_usecase_diagram_from_cluster("p1", cluster_id, 25)

SpecInterleave == Init /\ [][NextInterleave]_vars

\* a step of get-latest-diagram
LatestStep == maint'.n = maint.n + 1 /\ maint'.op = "latest"

\* a step of project-wide diagram generation that found a use case
GenerationStep ==
    /\ diag'.op = "project"
    /\ diag'.usecase_map # <<>>
    /\ (diag' # diag \/ use_cases' # use_cases)

\* the generation appends one snapshot of its result and keeps the others
GenerationAppends ==
    /\ Len(use_cases') = Len(use_cases) + 1
    /\ SubSeq(use_cases', 1, Len(use_cases)) = use_cases
    /\ use_cases'[Len(use_cases')].project_id = diag'.project_id
    /\ use_cases'[Len(use_cases')].diagrams = diag'.diagrams
    /\ use_cases'[Len(use_cases')].stats = diag'.stats

\* get-latest answers with the snapshot of the project that was appended last
LatestReturnsLast ==
    LET docs == SnapshotsOf(use_cases, maint'.project_id)
    IN  /\ (maint'.status = "404") <=> (docs = <<>>)
        /\ (docs # <<>>) =>
              (/\ maint'.status = "ok"
               /\ maint'.diagrams = docs[Len(docs)].diagrams
               /\ maint'.stats = docs[Len(docs)].stats)

SynthesisRepeated ==
    /\ diag.op = "project"
    /\ diag'.op = "project"
    /\ diag'.project_id = diag.project_id
    /\ store' = store

\* clustering is repeated on the same stored stories with the same threshold
ClusteringRepeated ==
    /\ lastCl.status # "none"
    /\ lastCl'.status # "none"
    /\ lastCl'.project_id = lastCl.project_id
    /\ lastCl'.distance_threshold = lastCl.distance_threshold
    /\ store' = store

\* C25: cluster and synthesize are deterministic: a second invocation over
\* the same stored records with the same parameters returns the same
\* clusters, the same diagram texts and the same aliases.
SynthesisDeterministic ==
    [][ /\ (SynthesisRepeated => (diag' = diag))
        /\ (ClusteringRepeated => (lastCl' = lastCl)) ]_vars

\* the two results agree in everything but the order of the edges
SameUpToEdgeOrder ==
    /\ diag'.usecase_map = diag.usecase_map
    /\ diag'.actor_set = diag.actor_set
    /\ diag'.edges = diag.edges
    /\ diag'.stats = diag.stats
    /\ Len(diag'.diagrams) = Len(diag.diagrams)
    /\ \A c \in 1..Len(diag.diagrams) :
         diag'.diagrams[c].usecases = diag.diagrams[c].usecases

\* the part of it that holds: the clusters, the use-case graph, the stats and
\* the use-case aliases are the same; the order of the edges, and with it the
\* actor aliases, may differ
SynthesisDeterministicUpToEdgeOrder ==
    [][ /\ (SynthesisRepeated => SameUpToEdgeOrder)
        /\ (ClusteringRepeated => (lastCl' = lastCl)) ]_vars

SetField(doc, field, value) ==
    [f \in (DOMAIN doc) \cup {field} |-> IF f = field THEN value ELSE doc[f]]

\* what the generative service returns: an insight, or data that
\* Insight.model_validate rejects
InsightData ==
    {[valid |-> TRUE, value |-> "i1"], [valid |-> FALSE, value |-> ""]}

NoStats == [actors |-> 0, usecases |-> 0, edges |-> 0]

\* mutant: the insight is written over the why of the story
InsightOverwritesWhy(story_id, insight_data) ==
    /\ store' = IF insight_data.valid
                THEN [i \in 1..Len(store) |->
                         IF store[i].id = story_id
                         THEN SetField(store[i], "why", Some(<<insight_data.value>>))
                         ELSE store[i]]
                ELSE store
    /\ maint' = IF ~\E i \in 1..Len(store) : store[i].id = story_id
                THEN Response("insight", "", "404", 0, <<>>, NoStats)
                ELSE IF ~insight_data.valid
                THEN Response("insight", "", "500", 0, <<>>, NoStats)
                ELSE Response("insight", "", "ok", 0, <<>>, NoStats)
    /\ UNCHANGED <<issued, pc, pending, done, last, lastCl, prevCl, ai_store, diag,
                   keyed, use_cases, who_aspect, relevance, news, fetch>>

\* POST /stories/generate-insight/{story_id}: 404 when no story has the id,
\* 500 when the insight is not valid, else $set of the insight field
generate_story_insight(story_id, insight_data) ==
    /\ store' = IF insight_data.valid
                THEN [i \in 1..Len(store) |->
                         IF store[i].id = story_id
                         THEN SetField(store[i], "insight", insight_data.value)
                         ELSE store[i]]
                ELSE store
    /\ maint' = IF ~\E i \in 1..Len(store) : store[i].id = story_id
                THEN Response("insight", "", "404", 0, <<>>, NoStats)
                ELSE IF ~insight_data.valid
                THEN Response("insight", "", "500", 0, <<>>, NoStats)
                ELSE Response("insight", "", "ok", 0, <<>>, NoStats)
    /\ UNCHANGED <<issued, pc, pending, done, last, lastCl, prevCl, ai_store, diag,
                   keyed, use_cases, who_aspect, relevance, news, fetch>>

\* lines 60-73 of backfill: the project of the source document of a story,
\* when its source_id is the id of a stored news article
SourceProject(us) ==
    IF us.source = "news"
          /\ \E i \in 1..Len(news) : ToString(news[i].id) = us.source_id
    THEN Some(news[CHOOSE i \in 1..Len(news) :
                      ToString(news[i].id) = us.source_id].project_id)
    ELSE NoneVal

\* find({"project_id": {"$exists": False}}) and a project found for it
Backfilled(us) == "project_id" \notin DOMAIN us /\ SourceProject(us) # NoneVal

\* POST /backfill-user-story-project-ids
backfill_user_story_project_ids ==
    /\ store' = [i \in 1..Len(store) |->
                    IF Backfilled(store[i])
                    THEN SetField(store[i], "project_id", SourceProject(store[i])[1])
                    ELSE store[i]]
    /\ maint' = Response("backfill", "", "ok",
                         Cardinality({ i \in 1..Len(store) : Backfilled(store[i]) }),
                         <<>>, NoStats)
    /\ UNCHANGED <<issued, pc, pending, done, last, lastCl, prevCl, ai_store, diag,
                   keyed, use_cases, who_aspect, relevance, news, fetch>>

\* mutant: the $match stage on the project is missing
ids_to_delete_any_project(coll, project_id) ==
    { coll[i].id : i \in { k \in 1..Len(coll) :
        \E j \in 1..(k - 1) :
            coll[j].source = coll[k].source /\ coll[j].what = coll[k].what } }

\* the aggregation and "ids_to_delete.extend(group["ids"][1:])": of the
\* stories of the project with the same source and what, all but the first
ids_to_delete(coll, project_id) ==
    { coll[i].id : i \in { k \in 1..Len(coll) :
        /\ coll[k].project_id = project_id
        /\ \E j \in 1..(k - 1) :
              /\ coll[j].project_id = project_id
              /\ coll[j].source = coll[k].source
              /\ coll[j].what = coll[k].what } }

\* delete_many({"_id": {"$in": ids}})
delete_many(coll, ids) == SelectSeq(coll, LAMBDA d : d.id \notin ids)

\* POST /clean-duplicates
clean_duplicate_user_stories(project_id) ==
    /\ store' = delete_many(store, ids_to_delete(store, project_id))
    /\ maint' = Response("clean", project_id, "ok",
                         Len(store) - Len(delete_many(store,
                                              ids_to_delete(store, project_id))),
                         <<>>, NoStats)
    /\ UNCHANGED <<issued, pc, pending, done, last, lastCl, prevCl, ai_store, diag,
                   keyed, use_cases, who_aspect, relevance, news, fetch>>

\* stories extracted in a behaviour of SpecMaint
MaxMaintStories == 2

\* insight, backfill and clean-duplicates requests in a behaviour
MaxMaint == 2

\* the extract requests: one review text for two projects, the same text as
\* news, and another review text
MaintRequests ==
    {[source |-> "review", content |-> DocExport, project_id |-> "p1"],
     [source |-> "review", content |-> DocExport, project_id |-> "p2"],
     [source |-> "news", content |-> DocExport, project_id |-> "p1"],
     [source |-> "review", content |-> DocSync, project_id |-> "p1"]}

\* the review texts of one project are extracted, and the stored stories are
\* clustered, drawn, given insights, backfilled and cleaned of duplicates
NextMaint ==
    \/ \E req \in MaintRequests :
            /\ issued < MaxMaintStories
            /\ req.source = "review"
            /\ req.project_id = "p1"
            /\ ExtractBuild("w1", req.source, "s1", req.content, req.project_id,
                            0, TRUE)
    \/ ExtractInsert("w1")
    \/ \E story_id \in 1..(MaxMaintStories + 1), insight_data \in InsightData :
            /\ maint.n < MaxMaint
            /\ generate_story_insight(uuid4(story_id), insight_data)
    \/ /\ maint.n < MaxMaint
       /\ backfill_user_story_project_ids
    \/ \E project_id \in Projects :
            /\ maint.n < MaxMaint
            /\ clean_duplicate_user_stories(project_id)
    \/ Cluster("p1", 25)
    \/ /\ Len(use_cases) < MaxSnapshots
       /\ create_use_case_diagrams_by_project("p1", FALSE)

SpecMaint == Init /\ [][NextMaint]_vars

\* stories extracted in a behaviour of SpecClean
MaxCleanStories == 4

\* clean-duplicates requests in a behaviour of SpecClean
MaxCleans == 2

\* the same texts are extracted again and again, and the duplicates removed
NextClean ==
    \/ \E req \in MaintRequests :
            /\ issued < MaxCleanStories
            /\ ExtractBuild("w1", req.source, "s1", req.content, req.project_id,
                            0, TRUE)
    \/ ExtractInsert("w1")
    \/ \E project_id \in Projects :
            /\ maint.n < MaxCleans
            /\ clean_duplicate_user_stories(project_id)

SpecClean == Init /\ [][NextClean]_vars

\* the fields of a document that extract_user_stories inserts
CoreFields ==
    {"id", "who", "what", "why", "full_sentence", "similarity_score", "source",
     "source_id", "project_id"}

\* C23: whatever the operation (extract, cluster, synthesize,
\* generate-insight, backfill, clean-duplicates), a story that is stored
\* before and after it keeps its id, who, what, why, full_sentence,
\* similarity_score, source, source_id and project_id, and the only field
\* it may gain or have changed is insight
StoriesImmutable ==
    [][ \A i \in 1..Len(store), j \in 1..Len(store') :
            store'[j].id = store[i].id
                => /\ CoreFields \subseteq DOMAIN store[i]
                   /\ DOMAIN store'[j] \subseteq (DOMAIN store[i]) \cup {"insight"}
                   /\ \A f \in (DOMAIN store[i]) \ {"insight"} :
                          /\ f \in DOMAIN store'[j]
                          /\ store'[j][f] = store[i][f] ]_vars

\* a story carries an insight, its duplicate has been removed, and the
\* stories have been clustered and drawn
StoriesImmutableWitness ==
    /\ \E i \in 1..Len(store) : "insight" \in DOMAIN store[i]
    /\ maint.op = "clean"
    /\ maint.count >= 1
    /\ lastCl.project_id = "p1"
    /\ Len(use_cases) >= 1

\* the (source, what) pairs among the stories of a project
PairsOf(coll, project_id) ==
    { <<coll[i].source, coll[i].what>> :
          i \in { k \in 1..Len(coll) : coll[k].project_id = project_id } }

\* the positions of the stories of a project with a (source, what) pair
Carriers(coll, project_id, pair) ==
    { k \in 1..Len(coll) : /\ coll[k].project_id = project_id
                           /\ <<coll[k].source, coll[k].what>> = pair }

\* a step that answers a clean-duplicates request
CleanStep == maint'.n = maint.n + 1 /\ maint'.op = "clean"

\* C27: after clean-duplicates for a project, each (source, what) pair of
\* its stories is carried by exactly one remaining story, which was stored
\* before; stories with a unique pair and the stories of other projects are
\* unchanged, deleted_count is the number of stories removed, and the same
\* call made again at once deletes nothing
CleanPostcondition ==
    [][ CleanStep =>
          /\ \A pair \in PairsOf(store, maint'.project_id) :
                /\ Cardinality(Carriers(store', maint'.project_id, pair)) = 1
                /\ \A k \in Carriers(store', maint'.project_id, pair) :
                       \E i \in 1..Len(store) : store[i] = store'[k]
          /\ \A i \in 1..Len(store) :
                Cardinality(Carriers(store, store[i].project_id,
                                     <<store[i].source, store[i].what>>)) = 1
                    => \E k \in 1..Len(store') : store'[k] = store[i]
          /\ SelectSeq(store', LAMBDA d : d.project_id # maint'.project_id)
                = SelectSeq(store, LAMBDA d : d.project_id # maint'.project_id)
          /\ maint'.count = Len(store) - Len(store')
          /\ delete_many(store', ids_to_delete(store', maint'.project_id)) = store'
      ]_vars

\* duplicates of a project have been removed while another project holds
\* a story with the same source and what
CleanPostconditionWitness ==
    /\ maint.op = "clean"
    /\ maint.count >= 1
    /\ \E i, j \in 1..Len(store) :
          /\ store[i].project_id = maint.project_id
          /\ store[j].project_id # maint.project_id
          /\ store[i].source = store[j].source
          /\ store[i].what = store[j].what

====
